---- MODULE Spec2Model ----
(***************************************************************************)
(* A model of the FileList extension's filtering core: the glob, regex and *)
(* fuzzy filters, the panel's applyCurrentFilter, the ignore service's     *)
(* pattern matching and the debounce utility.                              *)
(*                                                                         *)
(* A JavaScript string is modelled as a sequence of one-character strings, *)
(* so <<"b", "/", "a">> stands for 'b/a'.                                  *)
(***************************************************************************)
EXTENDS Integers, Sequences, FiniteSets, TLC

VARIABLES
    files,          \* the FileItem[] handed to a filter
    currentFilter,  \* FileListPanel.currentFilter (FilterOptions)
    op,             \* the operation that ran last ("none" before any)
    filteredFiles,  \* the list the operation returned
    threw,          \* the operation let an exception escape to its caller
    errorShown,     \* vscode.window.showErrorMessage was called
    matcherThrew,   \* the matcher applyCurrentFilter selected threw
    isValidResult,  \* what RegexFilter.isValid returned
    elapsed,        \* ms each regex test took: [<<file index, haystack>> -> ms]
    compileFailed,  \* RegexFilter.apply took its outer catch (line 27)
    ignorePatterns, \* the IgnorePattern[] given to matchesIgnorePattern
    filePath,       \* the path given to matchesIgnorePattern
    ignored,        \* matchesIgnorePattern's verdict
    ignoreOutcome,  \* "none" before the call, then "returned" or "threw"
    now,            \* the clock, in ms
    wait,           \* debounce's wait
    timeout,        \* debounce's timeout: the pending timer (due, args) or NoTimer
    log,            \* the calls of the debounced function and the invocations
                    \* of func so far, in order: [kind, at, args]
    reapplied,      \* what the matcher returned when given filteredFiles again
    disk,           \* the records a scan of the workspace finds
    fileCache,      \* FileService.fileCache: [respectIgnore -> entry]
    lastScanTime,   \* FileService.lastScanTime
    lastRefreshTime, \* FileListPanel.lastRefreshTime
    displayed,      \* FileListProvider.files
    refreshLog,     \* the refreshes performed so far: [at, cause, scan, after]
    stamp,          \* counts the scans, loads and invalidating events so far
    invalidated,    \* the stamp of the latest workspace change or manual refresh
    patternTried,   \* the pattern text given to matchesPattern
    patternOutcome, \* "none" before that call, then "returned" or "threw"
    patternMatched, \* what matchesPattern returned
    ignoreCache,    \* IgnoreService.ignorePatterns: [cache key -> entry]
    lastLoadTime,   \* IgnoreService.lastLoadTime
    lastGet,        \* the latest getIgnorePatterns call: [key, at, cached, loadedAt, load, after]
    ticks,          \* the steps the clock has made
    limit,          \* throttle's limit, per throttled function
    inThrottle,     \* throttle's inThrottle, per throttled function
    resetTimer,     \* the pending timer that clears inThrottle, per function
    throttleCalls,  \* the calls of the throttled functions so far: [fn, at, args]
    invocations,    \* the invocations of func so far: [fn, at, args, call]
    orphaned,       \* the pending timers of debounced functions the panel replaced
    requestLog,     \* the refresh requests the panel got so far: [at, delay]
    cachedPatterns, \* the lists in IgnoreService.ignorePatterns: [cache key -> IgnorePattern[]]
    verdict,        \* the latest isIgnored call: [path, patterns, ignored, threw]
    custom          \* the latest add/removeCustomIgnorePattern: [state, pattern, before, stamp]

filterVars == <<files, currentFilter, op, filteredFiles, threw, errorShown,
                matcherThrew, isValidResult, elapsed, compileFailed>>
ignoreVars == <<ignorePatterns, filePath, ignored, ignoreOutcome>>
debounceVars == <<now, wait, timeout, log>>
reapplyVars == <<reapplied>>
panelVars == <<disk, fileCache, lastScanTime, lastRefreshTime, displayed, refreshLog,
               stamp, invalidated>>
matchVars == <<patternTried, patternOutcome, patternMatched>>
cacheVars == <<ignoreCache, lastLoadTime, lastGet, cachedPatterns, verdict, custom>>
throttleVars == <<limit, inThrottle, resetTimer, throttleCalls, invocations>>
configVars == <<orphaned, requestLog>>
serviceVars == <<reapplyVars, panelVars, matchVars, cacheVars, ticks, throttleVars, configVars>>
vars == <<files, currentFilter, op, filteredFiles, threw, errorShown, matcherThrew,
          isValidResult, elapsed, compileFailed,
          ignorePatterns, filePath, ignored, ignoreOutcome,
          now, wait, timeout, log,
          reapplied,
          disk, fileCache, lastScanTime, lastRefreshTime, displayed, refreshLog,
          stamp, invalidated,
          patternTried, patternOutcome, patternMatched,
          ignoreCache, lastLoadTime, lastGet, ticks,
          limit, inThrottle, resetTimer, throttleCalls, invocations,
          orphaned, requestLog,
          cachedPatterns, verdict, custom>>

(***************************************************************************)
(* Bounds of the model.                                                    *)
(***************************************************************************)
MaxFiles == 2          \* longest input list
MaxSlowTests == 1      \* regex tests of one pass that may exceed the budget
MaxIgnorePatterns == 2 \* longest ignore pattern list
MaxTime == 6           \* the clock stops here
MaxCalls == 3          \* calls of the debounced function in one run
MaxEvents == 4         \* scans, loads and invalidating events in one run
MaxRefreshes == 3      \* refreshes the panel performs in one run
MaxTicks == 3          \* steps of the clock in one run of the panel

(***************************************************************************)
(* String helpers (String.prototype methods of the JavaScript runtime).    *)
(***************************************************************************)
Lower(c) ==
    CASE c = "A" -> "a"
      [] c = "B" -> "b"
      [] OTHER -> c

toLowerCase(s) == [i \in DOMAIN s |-> Lower(s[i])]

Min(a, b) == IF a <= b THEN a ELSE b
Max(a, b) == IF a >= b THEN a ELSE b

\* s.slice(from) with 0-based from
Drop(s, n) == SubSeq(s, n + 1, Len(s))
\* s.slice(0, n) for n >= 0
Take(s, n) == SubSeq(s, 1, Min(n, Len(s)))

startsWith(s, p) == Len(p) <= Len(s) /\ SubSeq(s, 1, Len(p)) = p

endsWith(s, p) == Len(p) <= Len(s) /\ SubSeq(s, Len(s) - Len(p) + 1, Len(s)) = p

includes(s, p) == \E i \in 0..(Len(s) - Len(p)) : SubSeq(s, i + 1, i + Len(p)) = p

RECURSIVE TrimLeft(_)
TrimLeft(s) == IF s # <<>> /\ Head(s) = " " THEN TrimLeft(Tail(s)) ELSE s

RECURSIVE TrimRight(_)
TrimRight(s) ==
    IF s # <<>> /\ s[Len(s)] = " " THEN TrimRight(SubSeq(s, 1, Len(s) - 1)) ELSE s

trim(s) == TrimRight(TrimLeft(s))

\* s.split(sep) for a one-character separator: always at least one piece
RECURSIVE SplitFrom(_, _, _)
SplitFrom(s, sep, cur) ==
    IF s = <<>> THEN <<cur>>
    ELSE IF Head(s) = sep THEN <<cur>> \o SplitFrom(Tail(s), sep, <<>>)
    ELSE SplitFrom(Tail(s), sep, Append(cur, Head(s)))

split(s, sep) == SplitFrom(s, sep, <<>>)

Range(s) == {s[i] : i \in DOMAIN s}

\* lexical (code unit) order of two strings; the characters of the model in
\* their UTF-16 order
CharCode(c) ==
    CASE c = " " -> 32 [] c = "!" -> 33 [] c = "*" -> 42 [] c = "," -> 44
      [] c = "/" -> 47 [] c = "A" -> 65 [] c = "B" -> 66 [] c = "[" -> 91
      [] c = "^" -> 94 [] c = "a" -> 97 [] c = "b" -> 98 [] c = "g" -> 103
      [] c = "i" -> 105 [] c = "y" -> 121
      [] OTHER -> 0

RECURSIVE LexLess(_, _)
LexLess(s, t) ==
    IF t = <<>> THEN FALSE
    ELSE IF s = <<>> THEN TRUE
    ELSE IF CharCode(Head(s)) # CharCode(Head(t)) THEN CharCode(Head(s)) < CharCode(Head(t))
    ELSE LexLess(Tail(s), Tail(t))

(***************************************************************************)
(* The candidate records.  A FileItem carries relativePath and name; name  *)
(* is the last segment of relativePath (FileService.scanDirectory).        *)
(***************************************************************************)
BaseName(path) == LET parts == split(path, "/") IN parts[Len(parts)]

FileItem(path) == [relativePath |-> path, name |-> BaseName(path)]

FileUniverse ==
    { FileItem(<<"a">>),
      FileItem(<<"b", "/", "a">>),
      FileItem(<<"b", "/", "b">>),
      FileItem(<<"a", "/", "b">>),
      FileItem(<<"A", "b">>) }

\* every list of distinct records of FileUniverse of length at most n
FileLists(n) ==
    UNION { { s \in [1..k -> FileUniverse] : \A i, j \in 1..k : i # j => s[i] # s[j] }
            : k \in 0..n }

(***************************************************************************)
(* minimatch(path, pattern, {nocase, dot: true, matchBase: true}) for the  *)
(* glob syntax the model's patterns use: literal characters, `*` inside a  *)
(* segment, a `**` segment, a leading `!` (negation) and `#` (comment).    *)
(***************************************************************************)
GLOBSTAR == <<"*", "*">>

\* one path segment against one pattern segment: `*` is any run of characters
RECURSIVE SegMatch(_, _)
SegMatch(f, p) ==
    IF p = <<>> THEN f = <<>>
    ELSE IF Head(p) = "*"
         THEN SegMatch(f, Tail(p)) \/ (f # <<>> /\ SegMatch(Tail(f), p))
         ELSE f # <<>> /\ Head(f) = Head(p) /\ SegMatch(Tail(f), Tail(p))

SegHit(f, p, nocase) ==
    IF nocase THEN SegMatch(toLowerCase(f), toLowerCase(p)) ELSE SegMatch(f, p)

\* split(/\/+/): a run of slashes separates once; a leading or trailing
\* slash leaves an empty first or last part
SlashSplit(s) ==
    LET parts == split(s, "/")
        keep == { i \in DOMAIN parts : parts[i] # <<>> \/ i = 1 \/ i = Len(parts) }
        RECURSIVE Pick(_)
        Pick(i) == IF i > Len(parts) THEN <<>>
                   ELSE IF i \in keep THEN <<parts[i]>> \o Pick(i + 1)
                   ELSE Pick(i + 1)
    IN Pick(1)

RECURSIVE matchOne(_, _, _)
matchOne(file, pattern, nocase) ==
    IF file = <<>> \/ pattern = <<>>
    THEN IF file = <<>> THEN pattern = <<>>
         ELSE Len(file) = 1 /\ file[1] = <<>>
    ELSE IF Head(pattern) = GLOBSTAR
         THEN IF Len(pattern) = 1 THEN TRUE
              ELSE \E fr \in 0..(Len(file) - 1) :
                       matchOne(Drop(file, fr), Tail(pattern), nocase)
         ELSE SegHit(Head(file), Head(pattern), nocase)
              /\ matchOne(Tail(file), Tail(pattern), nocase)

RECURSIVE StripNegation(_)
StripNegation(pattern) ==
    IF pattern # <<>> /\ Head(pattern) = "!"
    THEN LET r == StripNegation(Tail(pattern))
         IN [negate |-> ~r.negate, pattern |-> r.pattern]
    ELSE [negate |-> FALSE, pattern |-> pattern]

minimatch(path, pattern, nocase) ==
    IF pattern # <<>> /\ Head(pattern) = "#" THEN FALSE
    ELSE IF pattern = <<>> THEN path = <<>>
    ELSE LET parsed == StripNegation(pattern)
             parts == SlashSplit(parsed.pattern)
             ff == SlashSplit(path)
             file == IF Len(parts) = 1 THEN <<BaseName(path)>> ELSE ff
             hit == matchOne(file, parts, nocase)
         IN hit # parsed.negate

(***************************************************************************)
(* GlobFilter                                                              *)
(***************************************************************************)
\* pattern.split(',').map(p => p.trim()).filter(p => p), then the pieces
\* that start with `!` go to exclude without it, the others to include
parsePatterns(pattern) ==
    LET pieces == split(pattern, ",")
        trimmed == [i \in DOMAIN pieces |-> trim(pieces[i])]
        patterns == SelectSeq(trimmed, LAMBDA p : p # <<>>)
        excl == SelectSeq(patterns, LAMBDA p : Head(p) = "!")
    IN [include |-> SelectSeq(patterns, LAMBDA p : Head(p) # "!"),
        exclude |-> [i \in DOMAIN excl |-> Tail(excl[i])]]

\* mutant: `includePatterns.length === 0 ||` is left out
GlobKeeps_IncludeRequired(file, patterns, options) ==
    LET testPath == file.relativePath
        included == \E i \in DOMAIN patterns.include :
                        minimatch(testPath, patterns.include[i], ~options.caseSensitive)
        excluded == \E i \in DOMAIN patterns.exclude :
                        minimatch(testPath, patterns.exclude[i], ~options.caseSensitive)
    IN included /\ ~excluded

GlobKeeps(file, patterns, options) ==
    LET testPath == file.relativePath
        included == \/ Len(patterns.include) = 0
                    \/ \E i \in DOMAIN patterns.include :
                           minimatch(testPath, patterns.include[i], ~options.caseSensitive)
        excluded == \E i \in DOMAIN patterns.exclude :
                        minimatch(testPath, patterns.exclude[i], ~options.caseSensitive)
    IN included /\ ~excluded

\* GlobFilter.apply, when minimatch does not throw
GlobFilterApply(fs, options) ==
    IF trim(options.pattern) = <<>> THEN fs
    ELSE LET patterns == parsePatterns(options.pattern)
         IN SelectSeq(fs, LAMBDA file : GlobKeeps(file, patterns, options))


(***************************************************************************)
(* The JavaScript RegExp engine for the syntax the model's patterns use:   *)
(* literal characters, `.`, \c (the character c), `*` after one of these,  *)
(* `^`, `$`, and `[` with no closing bracket (a syntax error).  The        *)
(* patterns of the model hold none of + ? ( ) { } | ].                     *)
(***************************************************************************)
RegExpFlags == {"d", "g", "i", "m", "s", "u", "y"}

FlagsValid(flags) ==
    /\ \A i \in DOMAIN flags : flags[i] \in RegExpFlags
    /\ \A i, j \in DOMAIN flags : i # j => flags[i] # flags[j]

\* the atoms of a source, or ok = FALSE on a syntax error
RECURSIVE ParseAtoms(_, _, _)
ParseAtoms(src, atoms, canRepeat) ==
    IF src = <<>> THEN [ok |-> TRUE, atoms |-> atoms]
    ELSE LET c == Head(src) IN
         CASE c = "*" ->
                IF canRepeat
                THEN ParseAtoms(Tail(src),
                                [atoms EXCEPT ![Len(atoms)].star = TRUE], FALSE)
                ELSE [ok |-> FALSE, atoms |-> <<>>]      \* nothing to repeat
           [] c = "[" -> [ok |-> FALSE, atoms |-> <<>>]  \* unterminated class
           [] c = "\\" ->
                IF Len(src) = 1 THEN [ok |-> FALSE, atoms |-> <<>>]  \* \ at end
                ELSE ParseAtoms(Tail(Tail(src)),
                                Append(atoms, [kind |-> "char", c |-> src[2], star |-> FALSE]),
                                TRUE)
           [] c = "." ->
                ParseAtoms(Tail(src),
                           Append(atoms, [kind |-> "any", c |-> c, star |-> FALSE]), TRUE)
           [] c = "^" ->
                ParseAtoms(Tail(src),
                           Append(atoms, [kind |-> "bol", c |-> c, star |-> FALSE]), FALSE)
           [] c = "$" ->
                ParseAtoms(Tail(src),
                           Append(atoms, [kind |-> "eol", c |-> c, star |-> FALSE]), FALSE)
           [] OTHER ->
                ParseAtoms(Tail(src),
                           Append(atoms, [kind |-> "char", c |-> c, star |-> FALSE]), TRUE)

\* new RegExp(source, flags): ok = FALSE when the constructor throws
RegExp(source, flags) ==
    LET parsed == ParseAtoms(source, <<>>, FALSE)
    IN [ok |-> parsed.ok /\ FlagsValid(flags),
        atoms |-> parsed.atoms,
        flags |-> Range(flags)]

CharEq(a, b, ignoreCase) == IF ignoreCase THEN Lower(a) = Lower(b) ELSE a = b

\* whether atom a takes the character ch
AtomTakes(a, ch, ignoreCase) == a.kind = "any" \/ CharEq(ch, a.c, ignoreCase)

\* the end (characters consumed) of the match of atoms k.. at pos that the
\* backtracking matcher finds first, or -1
RECURSIVE MatchAt(_, _, _, _, _)
MatchAt(atoms, k, text, pos, ic) ==
    IF k > Len(atoms) THEN pos
    ELSE LET a == atoms[k] IN
         CASE a.kind = "bol" -> IF pos = 0 THEN MatchAt(atoms, k + 1, text, pos, ic) ELSE -1
           [] a.kind = "eol" ->
                IF pos = Len(text) THEN MatchAt(atoms, k + 1, text, pos, ic) ELSE -1
           [] OTHER ->
                IF ~a.star
                THEN IF pos < Len(text) /\ AtomTakes(a, text[pos + 1], ic)
                     THEN MatchAt(atoms, k + 1, text, pos + 1, ic)
                     ELSE -1
                ELSE LET run == { n \in 0..(Len(text) - pos) :
                                    \A j \in 1..n : AtomTakes(a, text[pos + j], ic) }
                         good == { n \in run : MatchAt(atoms, k + 1, text, pos + n, ic) # -1 }
                     IN IF good = {} THEN -1
                        ELSE LET n == CHOOSE m \in good : \A o \in good : o <= m
                             IN MatchAt(atoms, k + 1, text, pos + n, ic)

\* regex.test(text) with regex.lastIndex = lastIndex: the result and the
\* lastIndex it leaves
RegExpTest(regex, text, lastIndex) ==
    LET positional == ("g" \in regex.flags) \/ ("y" \in regex.flags)
        start == IF positional THEN lastIndex ELSE 0
        tries == IF "y" \in regex.flags THEN {start} \cap (0..Len(text))
                 ELSE start..Len(text)
        hits == { p \in tries : MatchAt(regex.atoms, 1, text, p, "i" \in regex.flags) # -1 }
    IN IF hits = {}
       THEN [result |-> FALSE, lastIndex |-> IF positional THEN 0 ELSE lastIndex]
       ELSE LET p == CHOOSE q \in hits : \A o \in hits : q <= o
            IN [result |-> TRUE,
                lastIndex |-> IF positional
                              THEN MatchAt(regex.atoms, 1, text, p, "i" \in regex.flags)
                              ELSE lastIndex]

(***************************************************************************)
(* RegexFilter                                                             *)
(***************************************************************************)
timeoutMs == 1000

\* the index of the last `/` of s, 0 when there is none
LastSlash(s) ==
    LET at == { i \in DOMAIN s : s[i] = "/" }
    IN IF at = {} THEN 0 ELSE CHOOSE i \in at : \A j \in at : j <= i

\* mutant: the flags written after the closing `/` are dropped
parsePattern_DropsFlags(pattern) ==
    LET j == LastSlash(pattern)
        wrapped == /\ Len(pattern) >= 3
                   /\ pattern[1] = "/"
                   /\ j >= 3
                   /\ \A i \in (j + 1)..Len(pattern) :
                          pattern[i] \in {"g", "i", "m", "u", "y"}
    IN IF wrapped
       THEN [pattern |-> SubSeq(pattern, 2, j - 1), flags |-> <<>>]
       ELSE [pattern |-> pattern, flags |-> <<>>]

\* pattern.match(/^\/(.+)\/([gimuy]*)$/)
parsePattern(pattern) ==
    LET j == LastSlash(pattern)
        wrapped == /\ Len(pattern) >= 3
                   /\ pattern[1] = "/"
                   /\ j >= 3
                   /\ \A i \in (j + 1)..Len(pattern) :
                          pattern[i] \in {"g", "i", "m", "u", "y"}
    IN IF wrapped
       THEN [pattern |-> SubSeq(pattern, 2, j - 1),
             flags |-> SubSeq(pattern, j + 1, Len(pattern))]
       ELSE [pattern |-> pattern, flags |-> <<>>]

\* mutant: `i` is added without looking at the flags of the pattern
createRegex_AlwaysAddsI(pattern, caseSensitive) ==
    LET parsed == parsePattern(pattern)
        flags == IF ~caseSensitive THEN Append(parsed.flags, "i") ELSE parsed.flags
    IN RegExp(parsed.pattern, flags)

createRegex(pattern, caseSensitive) ==
    LET parsed == parsePattern(pattern)
        flags == IF ~caseSensitive /\ "i" \notin Range(parsed.flags)
                 THEN Append(parsed.flags, "i")
                 ELSE parsed.flags
    IN RegExp(parsed.pattern, flags)

RegexFilterIsValid(pattern) ==
    IF trim(pattern) = <<>> THEN TRUE
    ELSE LET parsed == parsePattern(pattern)
         IN RegExp(parsed.pattern, parsed.flags).ok

\* mutant: lastIndex is not reset before the test
testWithTimeout_KeepsLastIndex(regex, text, lastIndex, ms) ==
    LET r == RegExpTest(regex, text, lastIndex)
    IN IF ms > timeoutMs
       THEN [result |-> FALSE, lastIndex |-> r.lastIndex]
       ELSE r

\* testWithTimeout: the test took ms; lastIndex is the regex's on entry
testWithTimeout(regex, text, lastIndex, ms) ==
    LET r == RegExpTest(regex, text, 0)
    IN IF ms > timeoutMs
       THEN [result |-> FALSE, lastIndex |-> r.lastIndex]
       ELSE r

\* mutant: only relativePath is tested
RegexKeeps_PathOnly(regex, fs, i, lastIndex, ms) ==
    testWithTimeout(regex, fs[i].relativePath, lastIndex, ms[<<i, "path">>])

\* the filter callback of RegexFilter.apply (lines 14-26) on file i
RegexKeeps(regex, fs, i, lastIndex, ms) ==
    LET onPath == testWithTimeout(regex, fs[i].relativePath, lastIndex, ms[<<i, "path">>])
    IN IF onPath.result THEN onPath
       ELSE testWithTimeout(regex, fs[i].name, onPath.lastIndex, ms[<<i, "name">>])

RECURSIVE RegexFilterFrom(_, _, _, _, _)
RegexFilterFrom(regex, fs, i, lastIndex, ms) ==
    IF i > Len(fs) THEN <<>>
    ELSE LET r == RegexKeeps(regex, fs, i, lastIndex, ms)
         IN (IF r.result THEN <<fs[i]>> ELSE <<>>)
            \o RegexFilterFrom(regex, fs, i + 1, r.lastIndex, ms)

\* RegexFilter.apply: what it returns, and whether the outer catch ran
RegexFilterApply(fs, options, ms) ==
    IF trim(options.pattern) = <<>> THEN [files |-> fs, compileFailed |-> FALSE]
    ELSE LET regex == createRegex(options.pattern, options.caseSensitive)
         IN IF ~regex.ok THEN [files |-> <<>>, compileFailed |-> TRUE]
            ELSE [files |-> RegexFilterFrom(regex, fs, 1, 0, ms),
                  compileFailed |-> FALSE]


(***************************************************************************)
(* FuzzyFilter.  A score is kept as an integer: the JavaScript score times *)
(* 10 * pattern.length, which makes every term of calculateFuzzyScore      *)
(* whole (40 * (m * 0.7 + c * 0.3) / n  becomes  40 * (7 m + 3 c)).        *)
(***************************************************************************)
ScoreScale(pattern) == 10 * Max(Len(pattern), 1)

\* the while loop of fuzzyMatch from textIndex on; st carries patternIndex,
\* matches, consecutiveMatches and maxConsecutiveMatches
RECURSIVE FuzzyScan(_, _, _, _)
FuzzyScan(text, pattern, textIndex, st) ==
    IF ~(textIndex < Len(text) /\ st.patternIndex < Len(pattern)) THEN st
    ELSE IF text[textIndex + 1] = pattern[st.patternIndex + 1]
         THEN FuzzyScan(text, pattern, textIndex + 1,
                  [patternIndex |-> st.patternIndex + 1,
                   matches |-> st.matches + 1,
                   consecutiveMatches |-> st.consecutiveMatches + 1,
                   maxConsecutiveMatches |->
                       Max(st.maxConsecutiveMatches, st.consecutiveMatches + 1)])
         ELSE FuzzyScan(text, pattern, textIndex + 1,
                  [st EXCEPT !.consecutiveMatches = 0])

\* mutant: a pattern matched in part counts as matched
fuzzyMatch_PartialCounts(text, pattern) ==
    IF Len(pattern) = 0 THEN [matches |-> TRUE, score |-> 10]
    ELSE LET st == FuzzyScan(text, pattern, 0,
                       [patternIndex |-> 0, matches |-> 0,
                        consecutiveMatches |-> 0, maxConsecutiveMatches |-> 0])
         IN [matches |-> st.patternIndex > 0,
             score |-> 7 * st.matches + 3 * st.maxConsecutiveMatches]

\* fuzzyMatch: matches, and score * 10 * pattern.length
fuzzyMatch(text, pattern) ==
    IF Len(pattern) = 0 THEN [matches |-> TRUE, score |-> 10]
    ELSE LET st == FuzzyScan(text, pattern, 0,
                       [patternIndex |-> 0, matches |-> 0,
                        consecutiveMatches |-> 0, maxConsecutiveMatches |-> 0])
         IN [matches |-> st.patternIndex = Len(pattern),
             score |-> 7 * st.matches + 3 * st.maxConsecutiveMatches]

\* mutant: the length bonus runs up to 100 instead of 10
calculateFuzzyScore_BonusTimesTen(fileName, relativePath, pattern, caseSensitive) ==
    LET searchName == IF caseSensitive THEN fileName ELSE toLowerCase(fileName)
        searchPath == IF caseSensitive THEN relativePath ELSE toLowerCase(relativePath)
        searchPattern == IF caseSensitive THEN pattern ELSE toLowerCase(pattern)
        unit == ScoreScale(searchPattern)
        exact == IF searchName = searchPattern THEN 100 * unit
                 ELSE IF searchPath = searchPattern THEN 90 * unit ELSE 0
        prefix == IF startsWith(searchName, searchPattern) THEN 80 * unit
                  ELSE IF startsWith(searchPath, searchPattern) THEN 70 * unit ELSE 0
        contains == IF includes(searchName, searchPattern) THEN 60 * unit
                    ELSE IF includes(searchPath, searchPattern) THEN 50 * unit ELSE 0
        nameMatch == fuzzyMatch(searchName, searchPattern)
        pathMatch == fuzzyMatch(searchPath, searchPattern)
        fuzzy == IF nameMatch.matches THEN 40 * nameMatch.score
                 ELSE IF pathMatch.matches THEN 30 * pathMatch.score ELSE 0
        score == exact + prefix + contains + fuzzy
        lengthBonus == Max(0, 100 - Len(relativePath)) * unit
    IN IF score > 0 THEN score + lengthBonus ELSE score

\* calculateFuzzyScore, times ScoreScale(pattern)
calculateFuzzyScore(fileName, relativePath, pattern, caseSensitive) ==
    LET searchName == IF caseSensitive THEN fileName ELSE toLowerCase(fileName)
        searchPath == IF caseSensitive THEN relativePath ELSE toLowerCase(relativePath)
        searchPattern == IF caseSensitive THEN pattern ELSE toLowerCase(pattern)
        unit == ScoreScale(searchPattern)
        exact == IF searchName = searchPattern THEN 100 * unit
                 ELSE IF searchPath = searchPattern THEN 90 * unit ELSE 0
        prefix == IF startsWith(searchName, searchPattern) THEN 80 * unit
                  ELSE IF startsWith(searchPath, searchPattern) THEN 70 * unit ELSE 0
        contains == IF includes(searchName, searchPattern) THEN 60 * unit
                    ELSE IF includes(searchPath, searchPattern) THEN 50 * unit ELSE 0
        nameMatch == fuzzyMatch(searchName, searchPattern)
        pathMatch == fuzzyMatch(searchPath, searchPattern)
        fuzzy == IF nameMatch.matches THEN 40 * nameMatch.score
                 ELSE IF pathMatch.matches THEN 30 * pathMatch.score ELSE 0
        score == exact + prefix + contains + fuzzy
        lengthBonus == Max(0, 100 - Len(relativePath)) * (unit \div 10)
    IN IF score > 0 THEN score + lengthBonus ELSE score

\* Array.prototype.sort((a, b) => b.score - a.score): stable, so an entry
\* goes behind every entry whose score is at least its own
RECURSIVE InsertByScore(_, _)
InsertByScore(sorted, r) ==
    IF sorted = <<>> THEN <<r>>
    ELSE IF Head(sorted).score >= r.score
         THEN <<Head(sorted)>> \o InsertByScore(Tail(sorted), r)
         ELSE <<r>> \o sorted

RECURSIVE SortByScore(_)
SortByScore(results) ==
    IF results = <<>> THEN <<>>
    ELSE InsertByScore(SortByScore(SubSeq(results, 1, Len(results) - 1)),
                       results[Len(results)])

\* mutant: the sort is not stable, entries of equal score come out reversed
FuzzyFilterApplyAdvanced_UnstableSort(fs, options) ==
    IF trim(options.pattern) = <<>> THEN fs
    ELSE LET pattern == toLowerCase(options.pattern)
             scored == [i \in DOMAIN fs |->
                          [item |-> fs[Len(fs) + 1 - i],
                           score |-> calculateFuzzyScore(fs[Len(fs) + 1 - i].name,
                                                         fs[Len(fs) + 1 - i].relativePath,
                                                         pattern, options.caseSensitive)]]
             results == SelectSeq(scored, LAMBDA r : r.score > 0)
             sorted == SortByScore(results)
             limited == Take(sorted, options.maxResults)
         IN [i \in DOMAIN limited |-> limited[i].item]

FuzzyFilterApplyAdvanced(fs, options) ==
    IF trim(options.pattern) = <<>> THEN fs
    ELSE LET pattern == toLowerCase(options.pattern)
             scored == [i \in DOMAIN fs |->
                          [item |-> fs[i],
                           score |-> calculateFuzzyScore(fs[i].name, fs[i].relativePath,
                                                         pattern, options.caseSensitive)]]
             results == SelectSeq(scored, LAMBDA r : r.score > 0)
             sorted == SortByScore(results)
             limited == Take(sorted, options.maxResults)
         IN [i \in DOMAIN limited |-> limited[i].item]

\* what fuse.search(pattern) followed by the sort can hand back: records of
\* the collection, each at most once, in an order Fuse decides
FuseOutcomes(fs) ==
    UNION { { [i \in 1..k |-> fs[pick[i]]] :
                pick \in { q \in [1..k -> DOMAIN fs] :
                             \A i, j \in 1..k : i # j => q[i] # q[j] } }
            : k \in 0..Len(fs) }

\* FuzzyFilter.apply when Fuse finds `found`
FuzzyFilterApply(fs, options, found) ==
    IF trim(options.pattern) = <<>> THEN fs
    ELSE Take(found, options.maxResults)


(***************************************************************************)
(* FileListPanel.applyCurrentFilter                                        *)
(***************************************************************************)
\* mutant: the final slice(0, maxResults) is left out
applyCurrentFilter_NoFinalSlice(fs, filter, outcome) ==
    IF trim(filter.pattern) = <<>> THEN Take(fs, filter.maxResults)
    ELSE IF outcome.threw THEN <<>> ELSE outcome.files

\* lines 107-134; outcome is what the selected matcher did: it threw, or it
\* returned outcome.files
applyCurrentFilter(fs, filter, outcome) ==
    IF trim(filter.pattern) = <<>> THEN Take(fs, filter.maxResults)
    ELSE Take(IF outcome.threw THEN <<>> ELSE outcome.files, filter.maxResults)

(***************************************************************************)
(* The inputs of the filter operations.                                    *)
(***************************************************************************)
Patterns ==
    { <<>>,
      <<" ">>,
      <<"a">>,
      <<"B">>,
      <<"a", "b">>,
      <<"b", "a">>,
      <<"^", "a">>,
      <<"b", "/">>,
      <<"*">>,
      <<"[">>,
      <<"b", "*", "a">>,
      <<"/", "a", "/", "g">>,
      <<"/", "a", "/", "g", "g">>,
      <<"/", "a", "/", "y">>,
      <<"/", "A", "/", "i">>,
      <<"!", "a">>,
      <<"b", "/", "*">>,
      <<"b", "/", "*", ",", "!", "b", "/", "a">>,
      <<" ", "a", " ", ",", ",", " ", "!", "B", " ">>,
      <<",", "!", "!", "a">> }

FilterTypes == {"glob", "regex", "fuzzy"}

MaxResultsValues == {0, 1, 2, 1000}

Tests(fs) == (DOMAIN fs) \X {"path", "name"}

NoElapsed == [t \in {} |-> 0]

\* the time each regex test of one pass takes: the tests of `slow` exceed
\* the budget by 1 ms, all others take exactly the budget
ElapsedChoices(fs) ==
    { [t \in Tests(fs) |-> IF t \in slow THEN timeoutMs + 1 ELSE timeoutMs] :
        slow \in { S \in SUBSET Tests(fs) : Cardinality(S) <= MaxSlowTests } }

FilterIdle ==
    /\ op = "none"
    /\ filteredFiles = <<>>
    /\ threw = FALSE
    /\ errorShown = FALSE
    /\ matcherThrew = FALSE
    /\ isValidResult = TRUE
    /\ elapsed = NoElapsed
    /\ compileFailed = FALSE

FilterInit ==
    /\ files \in FileLists(MaxFiles)
    /\ currentFilter \in [pattern : Patterns,
                          type : FilterTypes,
                          caseSensitive : BOOLEAN,
                          respectIgnore : {TRUE},
                          maxResults : MaxResultsValues]
    /\ FilterIdle

\* the filter state of the specifications that run no filter
FilterInitOne ==
    /\ files = <<>>
    /\ currentFilter = [pattern |-> <<>>, type |-> "fuzzy", caseSensitive |-> FALSE,
                        respectIgnore |-> TRUE, maxResults |-> 1000]
    /\ FilterIdle

Returned(name, fs) ==
    /\ op' = name
    /\ filteredFiles' = fs
    /\ threw' = FALSE

\* globFilter.apply(files, currentFilter); minimatch may throw
GlobApply ==
    /\ op = "none"
    /\ currentFilter.type = "glob"
    /\ \/ Returned("globApply", GlobFilterApply(files, currentFilter))
       \/ /\ trim(currentFilter.pattern) # <<>>
          /\ op' = "globApply"
          /\ filteredFiles' = <<>>
          /\ threw' = TRUE
    /\ UNCHANGED <<files, currentFilter, matcherThrew, errorShown, isValidResult, elapsed, compileFailed>>
    /\ UNCHANGED <<ignoreVars, debounceVars, serviceVars>>

\* regexFilter.apply(files, currentFilter)
RegexApply ==
    /\ op = "none"
    /\ currentFilter.type = "regex"
    /\ \E ms \in ElapsedChoices(files) :
          LET r == RegexFilterApply(files, currentFilter, ms)
          IN /\ Returned("regexApply", r.files)
             /\ compileFailed' = r.compileFailed
             /\ elapsed' = ms
    /\ UNCHANGED <<files, currentFilter, matcherThrew, errorShown, isValidResult>>
    /\ UNCHANGED <<ignoreVars, debounceVars, serviceVars>>

\* regexFilter.isValid(currentFilter.pattern)
RegexIsValid ==
    /\ op = "none"
    /\ currentFilter.type = "regex"
    /\ op' = "regexIsValid"
    /\ isValidResult' = RegexFilterIsValid(currentFilter.pattern)
    /\ UNCHANGED <<files, currentFilter, matcherThrew, filteredFiles, threw, errorShown, elapsed,
                   compileFailed>>
    /\ UNCHANGED <<ignoreVars, debounceVars, serviceVars>>

\* fuzzyFilter.apply(files, currentFilter); Fuse may throw
FuzzyApply ==
    /\ op = "none"
    /\ currentFilter.type = "fuzzy"
    /\ \/ \E found \in FuseOutcomes(files) :
             Returned("fuzzyApply", FuzzyFilterApply(files, currentFilter, found))
       \/ /\ trim(currentFilter.pattern) # <<>>
          /\ op' = "fuzzyApply"
          /\ filteredFiles' = <<>>
          /\ threw' = TRUE
    /\ UNCHANGED <<files, currentFilter, matcherThrew, errorShown, isValidResult, elapsed, compileFailed>>
    /\ UNCHANGED <<ignoreVars, debounceVars, serviceVars>>

\* fuzzyFilter.applyAdvanced(files, currentFilter)
FuzzyApplyAdvanced ==
    /\ op = "none"
    /\ currentFilter.type = "fuzzy"
    /\ Returned("fuzzyApplyAdvanced", FuzzyFilterApplyAdvanced(files, currentFilter))
    /\ UNCHANGED <<files, currentFilter, matcherThrew, errorShown, isValidResult, elapsed, compileFailed>>
    /\ UNCHANGED <<ignoreVars, debounceVars, serviceVars>>

\* what the matcher selected by currentFilter.type can do, with the regex
\* timing it did it under
MatcherOutcomes(fs, filter) ==
    LET thrown == [threw |-> TRUE, files |-> <<>>, ms |-> NoElapsed]
    IN CASE filter.type = "glob" ->
              { [threw |-> FALSE, files |-> GlobFilterApply(fs, filter), ms |-> NoElapsed],
                thrown }
         [] filter.type = "regex" ->
              { [threw |-> FALSE, files |-> RegexFilterApply(fs, filter, ms).files, ms |-> ms] :
                  ms \in ElapsedChoices(fs) }
         [] filter.type = "fuzzy" ->
              { [threw |-> FALSE, files |-> FuzzyFilterApply(fs, filter, found),
                 ms |-> NoElapsed] : found \in FuseOutcomes(fs) } \cup {thrown}

\* mutant: no try/catch around the matcher (lines 114, 128-131)
ApplyCurrentFilter_NoCatch ==
    /\ op = "none"
    /\ op' = "applyCurrentFilter"
    /\ IF trim(currentFilter.pattern) = <<>>
       THEN /\ filteredFiles' = applyCurrentFilter(files, currentFilter,
                                    [threw |-> FALSE, files |-> files])
            /\ matcherThrew' = FALSE
            /\ threw' = FALSE
            /\ elapsed' = elapsed
       ELSE \E outcome \in MatcherOutcomes(files, currentFilter) :
               /\ filteredFiles' = applyCurrentFilter(files, currentFilter, outcome)
               /\ matcherThrew' = outcome.threw
               /\ threw' = outcome.threw
               /\ elapsed' = outcome.ms
    /\ errorShown' = FALSE
    /\ UNCHANGED <<files, currentFilter, isValidResult, compileFailed>>
    /\ UNCHANGED <<ignoreVars, debounceVars, serviceVars>>

\* FileListPanel.applyCurrentFilter(files)
ApplyCurrentFilter ==
    /\ op = "none"
    /\ op' = "applyCurrentFilter"
    /\ IF trim(currentFilter.pattern) = <<>>
       THEN /\ filteredFiles' = applyCurrentFilter(files, currentFilter,
                                    [threw |-> FALSE, files |-> files])
            /\ matcherThrew' = FALSE
            /\ errorShown' = FALSE
            /\ elapsed' = elapsed
       ELSE \E outcome \in MatcherOutcomes(files, currentFilter) :
               /\ filteredFiles' = applyCurrentFilter(files, currentFilter, outcome)
               /\ matcherThrew' = outcome.threw
               /\ errorShown' = outcome.threw
               /\ elapsed' = outcome.ms
    /\ threw' = FALSE
    /\ UNCHANGED <<files, currentFilter, isValidResult, compileFailed>>
    /\ UNCHANGED <<ignoreVars, debounceVars, serviceVars>>

ReapplyIdle == reapplied = <<>>

\* the matcher that returned filteredFiles is given filteredFiles, with the
\* same options: apply(apply(files, opts), opts)
Reapply ==
    /\ ~threw
    /\ \/ /\ op = "globApply"
          /\ op' = "globReapply"
          /\ reapplied' = GlobFilterApply(filteredFiles, currentFilter)
          /\ UNCHANGED <<elapsed, compileFailed>>
       \/ /\ op = "regexApply"
          /\ op' = "regexReapply"
          /\ \E ms \in ElapsedChoices(filteredFiles) :
                LET r == RegexFilterApply(filteredFiles, currentFilter, ms)
                IN /\ reapplied' = r.files
                   /\ compileFailed' = r.compileFailed
                   /\ elapsed' = ms
       \/ /\ op = "fuzzyApplyAdvanced"
          /\ op' = "fuzzyReapplyAdvanced"
          /\ reapplied' = FuzzyFilterApplyAdvanced(filteredFiles, currentFilter)
          /\ UNCHANGED <<elapsed, compileFailed>>
    /\ UNCHANGED <<files, currentFilter, matcherThrew, filteredFiles, threw, errorShown, isValidResult>>
    /\ UNCHANGED <<ignoreVars, throttleVars, configVars, debounceVars, panelVars, matchVars, cacheVars, ticks>>


(***************************************************************************)
(* IgnoreService: matching a path against the ignore patterns.             *)
(***************************************************************************)
RegexSpecials == {".", "+", "?", "^", "$", "|", "(", ")", "[", "]", "{", "}"}

\* the chain of .replace(/\./g, '\\.') ... .replace(/\}/g, '\\}')
RECURSIVE EscapeSpecials(_)
EscapeSpecials(p) ==
    IF p = <<>> THEN <<>>
    ELSE (IF Head(p) \in RegexSpecials THEN <<"\\", Head(p)>> ELSE <<Head(p)>>)
         \o EscapeSpecials(Tail(p))

\* .replace(/\\\*/g, '.*').replace(/\\\?/g, '.'): a backslash followed by
\* `*` becomes `.*`, a backslash followed by `?` becomes `.`
RECURSIVE ReplaceEscapedWildcards(_)
ReplaceEscapedWildcards(e) ==
    IF Len(e) < 2 THEN e
    ELSE IF e[1] = "\\" /\ e[2] = "*"
         THEN <<".", "*">> \o ReplaceEscapedWildcards(Tail(Tail(e)))
    ELSE IF e[1] = "\\" /\ e[2] = "?"
         THEN <<".">> \o ReplaceEscapedWildcards(Tail(Tail(e)))
    ELSE IF e[1] = "\\"
         THEN <<e[1], e[2]>> \o ReplaceEscapedWildcards(Tail(Tail(e)))
    ELSE <<e[1]>> \o ReplaceEscapedWildcards(Tail(e))

globToRegex(pattern) ==
    LET escaped == EscapeSpecials(pattern)
        regexPattern == ReplaceEscapedWildcards(escaped)
    IN RegExp(<<"^">> \o regexPattern \o <<"$">>, <<>>)

\* segments.slice(i).join('/')
RECURSIVE join(_, _)
join(parts, sep) ==
    IF parts = <<>> THEN <<>>
    ELSE IF Len(parts) = 1 THEN parts[1]
    ELSE parts[1] \o <<sep>> \o join(Tail(parts), sep)

\* mutant: a relative pattern also matches the beginning of a segment
matchesPattern_PartialSegment(path, pattern) ==
    IF endsWith(pattern, <<"/">>)
    THEN [threw |-> FALSE,
          matches |-> startsWith(path, SubSeq(pattern, 1, Len(pattern) - 1) \o <<"/">>)]
    ELSE IF includes(pattern, <<"*">>)
    THEN LET regex == globToRegex(pattern)
         IN IF ~regex.ok THEN [threw |-> TRUE, matches |-> FALSE]
            ELSE [threw |-> FALSE, matches |-> RegExpTest(regex, path, 0).result]
    ELSE IF startsWith(pattern, <<"/">>)
    THEN [threw |-> FALSE,
          matches |-> \/ path = Tail(pattern)
                      \/ startsWith(path, Tail(pattern) \o <<"/">>)]
    ELSE LET segments == split(path, "/")
         IN [threw |-> FALSE,
             matches |-> \E i \in 0..(Len(segments) - 1) :
                            startsWith(join(Drop(segments, i), "/"), pattern)]

\* IgnoreService.matchesPattern: threw when new RegExp throws in globToRegex
matchesPattern(path, pattern) ==
    IF endsWith(pattern, <<"/">>)
    THEN [threw |-> FALSE,
          matches |-> startsWith(path, SubSeq(pattern, 1, Len(pattern) - 1) \o <<"/">>)]
    ELSE IF includes(pattern, <<"*">>)
    THEN LET regex == globToRegex(pattern)
         IN IF ~regex.ok THEN [threw |-> TRUE, matches |-> FALSE]
            ELSE [threw |-> FALSE, matches |-> RegExpTest(regex, path, 0).result]
    ELSE IF startsWith(pattern, <<"/">>)
    THEN [threw |-> FALSE,
          matches |-> \/ path = Tail(pattern)
                      \/ startsWith(path, Tail(pattern) \o <<"/">>)]
    ELSE LET segments == split(path, "/")
         IN [threw |-> FALSE,
             matches |-> \E i \in 0..(Len(segments) - 1) :
                            LET subPath == join(Drop(segments, i), "/")
                            IN \/ subPath = pattern
                               \/ startsWith(subPath, pattern \o <<"/">>)]

\* the for loop of matchesIgnorePattern from pattern i on, with `ignored` so far
RECURSIVE IgnoreLoop(_, _, _, _)
IgnoreLoop(path, patterns, i, ign) ==
    IF i > Len(patterns) THEN [threw |-> FALSE, ignored |-> ign]
    ELSE LET m == matchesPattern(path, patterns[i].pattern)
         IN IF m.threw THEN [threw |-> TRUE, ignored |-> FALSE]
            ELSE IgnoreLoop(path, patterns, i + 1,
                            IF m.matches THEN ~patterns[i].negated ELSE ign)

\* mutant: a negated pattern no longer takes back an earlier match
matchesIgnorePattern_AnyMatch(path, patterns) ==
    [threw |-> IgnoreLoop(path, patterns, 1, FALSE).threw,
     ignored |-> \E i \in DOMAIN patterns :
                    /\ ~patterns[i].negated
                    /\ ~IgnoreLoop(path, patterns, 1, FALSE).threw
                    /\ matchesPattern(path, patterns[i].pattern).matches]

matchesIgnorePattern(path, patterns) == IgnoreLoop(path, patterns, 1, FALSE)

\* the pattern texts an ignore file of the model can hold, as stored
IgnoreTexts ==
    { <<"b", "/">>,
      <<"b", "/", "a">>,
      <<"a">>,
      <<"b">>,
      <<"/", "a">>,
      <<"b", "/", "*">>,
      <<"*", "a">>,
      <<"*", ".", "a">>,
      <<"b", ".", "*">> }

IgnorePatternUniverse ==
    [pattern : IgnoreTexts, source : {<<".", "g">>}, negated : BOOLEAN]

IgnoreLists(n) == UNION { [1..k -> IgnorePatternUniverse] : k \in 0..n }

\* the paths of the records of a scan: files, the directory b, a file with
\* an extension and a file two directories deep
IgnorePaths ==
    { f.relativePath : f \in FileUniverse }
        \cup {<<"b">>, <<"b", ".", "a">>, <<"a", "/", "b", "/", "a">>}

IgnoreIdle ==
    /\ ignorePatterns = <<>>
    /\ filePath = <<>>
    /\ ignored = FALSE
    /\ ignoreOutcome = "none"

IgnoreInit ==
    /\ ignorePatterns \in IgnoreLists(MaxIgnorePatterns)
    /\ filePath \in IgnorePaths
    /\ ignored = FALSE
    /\ ignoreOutcome = "none"

\* matchesIgnorePattern(filePath, ignorePatterns)
MatchesIgnorePattern ==
    /\ ignoreOutcome = "none"
    /\ LET r == matchesIgnorePattern(filePath, ignorePatterns)
       IN /\ ignoreOutcome' = IF r.threw THEN "threw" ELSE "returned"
          /\ ignored' = r.ignored
    /\ UNCHANGED <<ignorePatterns, filePath>>
    /\ UNCHANGED <<filterVars, debounceVars, serviceVars>>

MatchIdle ==
    /\ patternTried = <<>>
    /\ patternOutcome = "none"
    /\ patternMatched = FALSE

\* matchesPattern(filePath, pattern.pattern) for one pattern of the list
MatchesPattern ==
    /\ patternOutcome = "none"
    /\ \E i \in DOMAIN ignorePatterns :
          LET r == matchesPattern(filePath, ignorePatterns[i].pattern)
          IN /\ patternTried' = ignorePatterns[i].pattern
             /\ patternOutcome' = IF r.threw THEN "threw" ELSE "returned"
             /\ patternMatched' = r.matches
    /\ UNCHANGED <<filterVars, ignoreVars, throttleVars, configVars, debounceVars, reapplyVars, panelVars, cacheVars, ticks>>

(***************************************************************************)
(* debounce(func, wait).  A timer runs once it is due: while one is due    *)
(* neither the clock moves nor another call of the debounced function is   *)
(* served.                                                                 *)
(***************************************************************************)
NoTimer == [set |-> FALSE]

WaitValues == {0, 1, 2}

ArgValues == {"x", "y"}

TimerDue == timeout.set /\ now >= timeout.due

DebounceIdle ==
    /\ now = 0
    /\ wait = 0
    /\ timeout = NoTimer
    /\ log = <<>>

DebounceInit ==
    /\ now = 0
    /\ wait \in WaitValues
    /\ timeout = NoTimer
    /\ log = <<>>

NumCalls == Cardinality({ i \in DOMAIN log : log[i].kind = "call" })

\* mutant: a pending timer is kept and only its arguments are replaced
DebouncedCall_KeepsTimer(args) ==
    /\ ~TimerDue
    /\ NumCalls < MaxCalls
    /\ now + wait <= MaxTime
    /\ timeout' = IF timeout.set THEN [timeout EXCEPT !.args = args]
                  ELSE [set |-> TRUE, due |-> now + wait, args |-> args]
    /\ log' = Append(log, [kind |-> "call", at |-> now, args |-> args])
    /\ UNCHANGED <<now, wait>>
    /\ UNCHANGED <<filterVars, ignoreVars, serviceVars>>

\* the function debounce returns, called with args (lines 7-17):
\* clearTimeout on the pending timer, then setTimeout(later, wait)
DebouncedCall(args) ==
    /\ ~TimerDue
    /\ NumCalls < MaxCalls
    /\ now + wait <= MaxTime
    /\ timeout' = [set |-> TRUE, due |-> now + wait, args |-> args]
    /\ log' = Append(log, [kind |-> "call", at |-> now, args |-> args])
    /\ UNCHANGED <<now, wait>>
    /\ UNCHANGED <<filterVars, ignoreVars, serviceVars>>

\* later (lines 8-11): timeout = null; func(..._args)
Later ==
    /\ TimerDue
    /\ timeout' = NoTimer
    /\ log' = Append(log, [kind |-> "invoke", at |-> now, args |-> timeout.args])
    /\ UNCHANGED <<now, wait>>
    /\ UNCHANGED <<filterVars, ignoreVars, serviceVars>>

\* a millisecond passes
Tick ==
    /\ ~TimerDue
    /\ now < MaxTime
    /\ now' = now + 1
    /\ UNCHANGED <<wait, timeout, log>>
    /\ UNCHANGED <<filterVars, ignoreVars, serviceVars>>


(***************************************************************************)
(* FileListPanel's refresh, with FileService's cache of the scanned files. *)
(* The clock starts well after the epoch, as Date.now() does.              *)
(***************************************************************************)
cacheTtl == 5 * 60 * 1000

debounceDelay == 300

minRefreshInterval == 1000

ActivatedAt == 2 * cacheTtl

NoEntry == [set |-> FALSE]

WatcherCauses == {"create", "delete", "change"}

PanelIdle ==
    /\ disk = <<>>
    /\ fileCache = [k \in BOOLEAN |-> NoEntry]
    /\ lastScanTime = 0
    /\ lastRefreshTime = 0
    /\ displayed = <<>>
    /\ refreshLog = <<>>
    /\ stamp = 0
    /\ invalidated = 0

\* FileService.isCacheValid
FileCacheValid == now - lastScanTime < cacheTtl

\* FileService.getWorkspaceFiles({respectIgnore, ...}): the cached list of
\* the key while it is valid, else a scan, which never asks IgnoreService
getWorkspaceFiles(respectIgnore) ==
    IF fileCache[respectIgnore].set /\ FileCacheValid
    THEN [files |-> fileCache[respectIgnore].files,
          scan |-> fileCache[respectIgnore].scan,
          scanned |-> FALSE]
    ELSE [files |-> disk, scan |-> stamp + 1, scanned |-> TRUE]

\* refreshFiles(): this.refreshDebounced(), the debounced performRefresh
RefreshFiles(cause) ==
    /\ ~TimerDue
    /\ Len(refreshLog) + (IF timeout.set THEN 1 ELSE 0) <= MaxRefreshes
    /\ Len(refreshLog) < MaxRefreshes
    /\ timeout' = [set |-> TRUE, due |-> now + wait, args |-> cause]

\* performRefresh (lines 76-95), run by the debounce timer
PerformRefresh ==
    /\ TimerDue
    /\ LET got == getWorkspaceFiles(currentFilter.respectIgnore)
       IN /\ files' = got.files
          /\ IF got.scanned
             THEN /\ fileCache' = [fileCache EXCEPT ![currentFilter.respectIgnore] =
                                      [set |-> TRUE, files |-> got.files, scan |-> got.scan]]
                  /\ lastScanTime' = now
                  /\ stamp' = stamp + 1
             ELSE UNCHANGED <<fileCache, lastScanTime, stamp>>
          /\ \E outcome \in (IF trim(currentFilter.pattern) = <<>>
                             THEN {[threw |-> FALSE, files |-> got.files, ms |-> NoElapsed]}
                             ELSE MatcherOutcomes(got.files, currentFilter)) :
                /\ filteredFiles' = applyCurrentFilter(got.files, currentFilter, outcome)
                /\ displayed' = applyCurrentFilter(got.files, currentFilter, outcome)
                /\ matcherThrew' = outcome.threw
                /\ errorShown' = outcome.threw
                /\ elapsed' = outcome.ms
          /\ refreshLog' = Append(refreshLog, [at |-> now, cause |-> timeout.args,
                                               scan |-> got.scan, after |-> invalidated])
    /\ op' = "performRefresh"
    /\ threw' = FALSE
    /\ lastRefreshTime' = now
    /\ timeout' = NoTimer
    /\ UNCHANGED <<currentFilter, isValidResult, compileFailed>>
    /\ UNCHANGED <<now, wait, log, disk, invalidated>>
    /\ UNCHANGED <<ignoreVars, throttleVars, configVars, reapplyVars, matchVars, cacheVars, ticks>>

\* command fileList.refreshFiles (part_001 lines 22-25)
ManualRefresh ==
    /\ stamp < MaxEvents
    /\ RefreshFiles("command")
    /\ stamp' = stamp + 1
    /\ invalidated' = stamp + 1
    /\ UNCHANGED <<now, wait, log, disk, fileCache, lastScanTime, lastRefreshTime,
                   displayed, refreshLog>>
    /\ UNCHANGED <<filterVars, ignoreVars, throttleVars, configVars, reapplyVars, matchVars, cacheVars, ticks>>

\* toggleIgnoreFiles (lines 142-148)
ToggleIgnoreFiles ==
    /\ currentFilter' = [currentFilter EXCEPT !.respectIgnore = ~currentFilter.respectIgnore]
    /\ RefreshFiles("toggle")
    /\ UNCHANGED <<files, op, filteredFiles, threw, errorShown, matcherThrew,
                   isValidResult, elapsed, compileFailed>>
    /\ UNCHANGED <<now, wait, log, panelVars>>
    /\ UNCHANGED <<ignoreVars, throttleVars, configVars, reapplyVars, matchVars, cacheVars, ticks>>


(***************************************************************************)
(* IgnoreService's cache of the loaded pattern lists, and the clock.       *)
(***************************************************************************)
cacheExpiry == 5 * 60 * 1000

\* the option sets callers pass: .gitignore alone, or all three ignore files
CacheKeys == {"gitignore", "all"}

NoGet == [cached |-> FALSE, key |-> "none"]

NoVerdict == [set |-> FALSE]

NoCustom == [state |-> "none"]

CacheIdle ==
    /\ ignoreCache = [k \in CacheKeys |-> NoEntry]
    /\ lastLoadTime = 0
    /\ lastGet = NoGet
    /\ ticks = 0
    /\ cachedPatterns = [k \in CacheKeys |-> <<>>]
    /\ verdict = NoVerdict
    /\ custom = NoCustom

\* IgnoreService.isCacheValid
isCacheValid == now - lastLoadTime < cacheExpiry

\* the list getIgnorePatterns returns for the key: the cached one, or the
\* patterns read from the ignore files (.gitignore holds ignorePatterns, the
\* other ignore files do not exist)
PatternsReturned(key) ==
    IF ignoreCache[key].set /\ isCacheValid
    THEN cachedPatterns[key]
    ELSE ignorePatterns

\* IgnoreService.getIgnorePatterns(workspaceFolder, options), key standing
\* for getCacheKey(workspaceFolder, options)
GetIgnorePatterns(key) ==
    /\ ~TimerDue
    /\ stamp < MaxEvents
    /\ IF ignoreCache[key].set /\ isCacheValid
       THEN /\ lastGet' = [cached |-> TRUE, key |-> key, at |-> now,
                           loadedAt |-> ignoreCache[key].loadedAt,
                           load |-> ignoreCache[key].load, after |-> invalidated]
            /\ UNCHANGED <<ignoreCache, lastLoadTime, stamp, cachedPatterns>>
       ELSE /\ ignoreCache' = [ignoreCache EXCEPT ![key] =
                                  [set |-> TRUE, loadedAt |-> now, load |-> stamp + 1]]
            /\ cachedPatterns' = [cachedPatterns EXCEPT ![key] = ignorePatterns]
            /\ lastLoadTime' = now
            /\ stamp' = stamp + 1
            /\ lastGet' = [cached |-> FALSE, key |-> key, at |-> now,
                           loadedAt |-> now, load |-> stamp + 1, after |-> invalidated]
    /\ UNCHANGED <<verdict, custom>>
    /\ UNCHANGED <<disk, fileCache, lastScanTime, lastRefreshTime, displayed, refreshLog,
                   invalidated, ticks>>
    /\ UNCHANGED <<filterVars, ignoreVars, throttleVars, configVars, debounceVars, reapplyVars, matchVars>>

\* IgnoreService.refreshCache
RefreshCache ==
    /\ ~TimerDue
    /\ ignoreCache' = [k \in CacheKeys |-> NoEntry]
    /\ cachedPatterns' = [k \in CacheKeys |-> <<>>]
    /\ lastLoadTime' = 0
    /\ UNCHANGED <<lastGet, ticks, verdict, custom>>
    /\ UNCHANGED <<filterVars, ignoreVars, throttleVars, configVars, debounceVars, reapplyVars, matchVars, panelVars>>

\* the clock moves on by d ms, not past a pending timer
Advance(d) ==
    /\ ~TimerDue
    /\ ticks < MaxTicks
    /\ timeout.set => now + d <= timeout.due
    /\ now' = now + d
    /\ ticks' = ticks + 1
    /\ UNCHANGED <<wait, timeout, log>>
    /\ UNCHANGED <<filterVars, ignoreVars, throttleVars, configVars, reapplyVars, matchVars, panelVars, cacheVars>>


(***************************************************************************)
(* What activate() wires to the panel: the workspace-folder change and the *)
(* file system watcher.                                                    *)
(***************************************************************************)
\* FileListPanel.shouldRefreshOnChange
shouldRefreshOnChange == now - lastRefreshTime > minRefreshInterval

\* onWorkspaceChanged (lines 183-188): refreshFileCache, refreshCache,
\* refreshFiles
WorkspaceChanged ==
    /\ stamp < MaxEvents
    /\ fileCache' = [k \in BOOLEAN |-> NoEntry]
    /\ lastScanTime' = 0
    /\ ignoreCache' = [k \in CacheKeys |-> NoEntry]
    /\ cachedPatterns' = [k \in CacheKeys |-> <<>>]
    /\ lastLoadTime' = 0
    /\ RefreshFiles("workspace")
    /\ stamp' = stamp + 1
    /\ invalidated' = stamp + 1
    /\ UNCHANGED <<now, wait, log, disk, lastRefreshTime, displayed, refreshLog,
                   lastGet, ticks, verdict, custom>>
    /\ UNCHANGED <<filterVars, ignoreVars, throttleVars, configVars, reapplyVars, matchVars>>

\* workspaceWatcher.onDidCreate (part_001 lines 77-79)
WatcherCreate ==
    /\ RefreshFiles("create")
    /\ UNCHANGED <<now, wait, log, panelVars>>
    /\ UNCHANGED <<filterVars, ignoreVars, throttleVars, configVars, reapplyVars, matchVars, cacheVars, ticks>>

\* workspaceWatcher.onDidDelete (part_001 lines 81-83)
WatcherDelete ==
    /\ RefreshFiles("delete")
    /\ UNCHANGED <<now, wait, log, panelVars>>
    /\ UNCHANGED <<filterVars, ignoreVars, throttleVars, configVars, reapplyVars, matchVars, cacheVars, ticks>>

\* workspaceWatcher.onDidChange (part_001 lines 85-90)
WatcherChange ==
    /\ IF shouldRefreshOnChange
       THEN RefreshFiles("change")
       ELSE ~TimerDue /\ UNCHANGED timeout
    /\ UNCHANGED <<now, wait, log, panelVars>>
    /\ UNCHANGED <<filterVars, ignoreVars, throttleVars, configVars, reapplyVars, matchVars, cacheVars, ticks>>


(***************************************************************************)
(* throttle (utils/debounce).  Each function throttle returns has its own  *)
(* inThrottle flag and its own timer clearing it.  A call is served        *)
(* synchronously; the timer's callback runs as a task of its own, so a     *)
(* call can be served at the instant the timer is due, before the callback *)
(* has run.  The clock does not pass a due timer.                          *)
(***************************************************************************)
ThrottledFns == {"fn1", "fn2"}

LimitValues == {0, 1, 2}

ResetDue(fn) == resetTimer[fn].set /\ now >= resetTimer[fn].due

\* nothing throttled has been called
ThrottleIdle ==
    /\ limit = [fn \in ThrottledFns |-> 0]
    /\ inThrottle = [fn \in ThrottledFns |-> FALSE]
    /\ resetTimer = [fn \in ThrottledFns |-> NoTimer]
    /\ throttleCalls = <<>>
    /\ invocations = <<>>

\* throttle(func, limit) (lines 20-25): inThrottle is declared, not yet true
ThrottleInit ==
    /\ limit \in [ThrottledFns -> LimitValues]
    /\ inThrottle = [fn \in ThrottledFns |-> FALSE]
    /\ resetTimer = [fn \in ThrottledFns |-> NoTimer]
    /\ throttleCalls = <<>>
    /\ invocations = <<>>

\* the function throttle returns, called with args (lines 26-32)
ThrottledCall(fn, args) ==
    /\ Len(throttleCalls) < MaxCalls
    /\ throttleCalls' = Append(throttleCalls, [fn |-> fn, at |-> now, args |-> args])
    /\ IF ~inThrottle[fn]
       THEN /\ invocations' = Append(invocations,
                                     [fn |-> fn, at |-> now, args |-> args,
                                      call |-> Len(throttleCalls) + 1])
            /\ inThrottle' = [inThrottle EXCEPT ![fn] = TRUE]
            /\ resetTimer' = [resetTimer EXCEPT ![fn] = [set |-> TRUE, due |-> now + limit[fn]]]
       ELSE UNCHANGED <<invocations, inThrottle, resetTimer>>
    /\ UNCHANGED <<limit, ticks>>
    /\ UNCHANGED <<filterVars, ignoreVars, debounceVars, reapplyVars, panelVars, matchVars, cacheVars, configVars>>

\* the timer's callback (line 30): inThrottle = false
ThrottleReset(fn) ==
    /\ ResetDue(fn)
    /\ inThrottle' = [inThrottle EXCEPT ![fn] = FALSE]
    /\ resetTimer' = [resetTimer EXCEPT ![fn] = NoTimer]
    /\ UNCHANGED <<limit, throttleCalls, invocations, ticks>>
    /\ UNCHANGED <<filterVars, ignoreVars, debounceVars, reapplyVars, panelVars, matchVars, cacheVars, configVars>>

\* a millisecond passes
ThrottleTick ==
    /\ \A fn \in ThrottledFns : ~ResetDue(fn)
    /\ now < MaxTime
    /\ now' = now + 1
    /\ UNCHANGED <<wait, timeout, log>>
    /\ UNCHANGED <<filterVars, ignoreVars, reapplyVars, panelVars, matchVars, cacheVars, ticks, throttleVars, configVars>>


(***************************************************************************)
(* FileListPanel under configuration changes.  loadConfiguration puts a    *)
(* new debounced function in refreshDebounced; the timer of the function   *)
(* it replaces is out of reach of clearTimeout and stays pending.          *)
(***************************************************************************)
\* fileList.debounceDelay as the user can set it
DelayValues == {100, debounceDelay}

ConfigIdle ==
    /\ orphaned = <<>>
    /\ requestLog = <<>>

\* a timer of the panel, current or of a replaced function, has expired
AnyTimerDue == TimerDue \/ \E i \in DOMAIN orphaned : now >= orphaned[i].due

\* refreshFiles() (lines 72-74), on any request
RequestRefresh ==
    /\ ~AnyTimerDue
    /\ Len(requestLog) < MaxCalls
    /\ RefreshFiles("request")
    /\ requestLog' = Append(requestLog, [at |-> now, delay |-> wait])
    /\ UNCHANGED <<now, wait, log, panelVars, orphaned>>
    /\ UNCHANGED <<filterVars, ignoreVars, reapplyVars, matchVars, cacheVars, ticks, throttleVars>>

\* onConfigurationChanged (lines 178-181): loadConfiguration, refreshFiles
ConfigurationChanged(delay, respectGitignore) ==
    /\ ~AnyTimerDue
    /\ Len(requestLog) < MaxCalls
    /\ currentFilter' = [currentFilter EXCEPT !.respectIgnore = respectGitignore]
    /\ wait' = delay
    /\ orphaned' = IF timeout.set THEN Append(orphaned, timeout) ELSE orphaned
    /\ timeout' = [set |-> TRUE, due |-> now + delay, args |-> "config"]
    /\ requestLog' = Append(requestLog, [at |-> now, delay |-> delay])
    /\ UNCHANGED <<files, op, filteredFiles, threw, errorShown, matcherThrew,
                   isValidResult, elapsed, compileFailed>>
    /\ UNCHANGED <<now, log, panelVars>>
    /\ UNCHANGED <<ignoreVars, reapplyVars, matchVars, cacheVars, ticks, throttleVars>>

\* performRefresh (lines 76-95), run by the timer of a replaced function
PerformRefreshOrphaned ==
    \E i \in DOMAIN orphaned :
        /\ now >= orphaned[i].due
        /\ LET got == getWorkspaceFiles(currentFilter.respectIgnore)
           IN /\ files' = got.files
              /\ IF got.scanned
                 THEN /\ fileCache' = [fileCache EXCEPT ![currentFilter.respectIgnore] =
                                          [set |-> TRUE, files |-> got.files, scan |-> got.scan]]
                      /\ lastScanTime' = now
                      /\ stamp' = stamp + 1
                 ELSE UNCHANGED <<fileCache, lastScanTime, stamp>>
              /\ \E outcome \in (IF trim(currentFilter.pattern) = <<>>
                                 THEN {[threw |-> FALSE, files |-> got.files, ms |-> NoElapsed]}
                                 ELSE MatcherOutcomes(got.files, currentFilter)) :
                    /\ filteredFiles' = applyCurrentFilter(got.files, currentFilter, outcome)
                    /\ displayed' = applyCurrentFilter(got.files, currentFilter, outcome)
                    /\ matcherThrew' = outcome.threw
                    /\ errorShown' = outcome.threw
                    /\ elapsed' = outcome.ms
              /\ refreshLog' = Append(refreshLog, [at |-> now, cause |-> orphaned[i].args,
                                                   scan |-> got.scan, after |-> invalidated])
        /\ orphaned' = SubSeq(orphaned, 1, i - 1) \o SubSeq(orphaned, i + 1, Len(orphaned))
    /\ op' = "performRefresh"
    /\ threw' = FALSE
    /\ lastRefreshTime' = now
    /\ UNCHANGED <<currentFilter, isValidResult, compileFailed>>
    /\ UNCHANGED <<now, wait, timeout, log, disk, invalidated, requestLog>>
    /\ UNCHANGED <<ignoreVars, reapplyVars, matchVars, cacheVars, ticks, throttleVars>>

\* time passes, up to the next timer of the panel
ConfigAdvance(d) ==
    /\ ~AnyTimerDue
    /\ ticks < MaxTicks
    /\ timeout.set => now + d <= timeout.due
    /\ \A i \in DOMAIN orphaned : now + d <= orphaned[i].due
    /\ now' = now + d
    /\ ticks' = ticks + 1
    /\ UNCHANGED <<wait, timeout, log>>
    /\ UNCHANGED <<filterVars, ignoreVars, reapplyVars, matchVars, panelVars, cacheVars,
                   throttleVars, configVars>>


(***************************************************************************)
(* The workspace changing under the watcher: a file is created or deleted  *)
(* and the watcher's handler is called for it.                             *)
(***************************************************************************)
\* a file appears in the workspace; workspaceWatcher.onDidCreate
FileCreated(file) ==
    /\ Len(disk) < MaxFiles
    /\ file \notin Range(disk)
    /\ disk' = Append(disk, file)
    /\ RefreshFiles("create")
    /\ UNCHANGED <<now, wait, log, fileCache, lastScanTime, lastRefreshTime, displayed,
                   refreshLog, stamp, invalidated>>
    /\ UNCHANGED <<filterVars, ignoreVars, reapplyVars, matchVars, cacheVars, ticks,
                   throttleVars, configVars>>

\* a file of the workspace is removed; workspaceWatcher.onDidDelete
FileDeleted(i) ==
    /\ i \in DOMAIN disk
    /\ disk' = SubSeq(disk, 1, i - 1) \o SubSeq(disk, i + 1, Len(disk))
    /\ RefreshFiles("delete")
    /\ UNCHANGED <<now, wait, log, fileCache, lastScanTime, lastRefreshTime, displayed,
                   refreshLog, stamp, invalidated>>
    /\ UNCHANGED <<filterVars, ignoreVars, reapplyVars, matchVars, cacheVars, ticks,
                   throttleVars, configVars>>


(***************************************************************************)
(* IgnoreService: isIgnored and the custom patterns.  normalizePath is     *)
(* path.normalize with `/` as the separator.                               *)
(***************************************************************************)
\* the segments path.normalize keeps: empty and `.` segments go, a `..`
\* takes the segment before it, or stays when there is none to take
RECURSIVE NormalizeSegments(_, _, _)
NormalizeSegments(segments, kept, isAbsolute) ==
    IF segments = <<>> THEN kept
    ELSE LET seg == Head(segments) IN
         IF seg = <<>> \/ seg = <<".">>
         THEN NormalizeSegments(Tail(segments), kept, isAbsolute)
         ELSE IF seg = <<".", ".">>
         THEN IF kept # <<>> /\ kept[Len(kept)] # <<".", ".">>
              THEN NormalizeSegments(Tail(segments), SubSeq(kept, 1, Len(kept) - 1), isAbsolute)
              ELSE IF isAbsolute
                   THEN NormalizeSegments(Tail(segments), kept, isAbsolute)
                   ELSE NormalizeSegments(Tail(segments), Append(kept, seg), isAbsolute)
         ELSE NormalizeSegments(Tail(segments), Append(kept, seg), isAbsolute)

\* normalizePath (pathUtils.ts): path.normalize(filePath).replace(/\\/g, '/')
normalizePath(pathText) ==
    IF pathText = <<>> THEN <<".">>
    ELSE LET isAbsolute == Head(pathText) = "/"
             trailingSeparator == pathText[Len(pathText)] = "/"
             body == join(NormalizeSegments(split(pathText, "/"), <<>>, isAbsolute), "/")
             relative == IF body = <<>> /\ ~isAbsolute THEN <<".">> ELSE body
             closed == IF relative # <<>> /\ trailingSeparator
                       THEN relative \o <<"/">> ELSE relative
         IN IF isAbsolute THEN <<"/">> \o closed ELSE closed

\* the source addCustomIgnorePattern gives by default
CustomSource == <<"c", "u", "s", "t", "o", "m">>

\* the pattern strings given to add/removeCustomIgnorePattern
CustomTexts ==
    { <<"a">>,
      <<".", "/", "a">>,
      <<"b", "/", "/", "a">>,
      <<"b", "/", "a">> }

\* the key addCustomIgnorePattern and removeCustomIgnorePattern build
CustomKey == "all"

\* Map.set(cacheKey, list): the entry a set creates when there was none
Written(entry) ==
    IF entry.set THEN entry ELSE [set |-> TRUE, loadedAt |-> now, load |-> 0]

\* IgnoreService.isIgnored(filePath, options) with the three ignore files
\* respected: getIgnorePatterns, then matchesIgnorePattern
IsIgnored(path) ==
    /\ ~TimerDue
    /\ stamp < MaxEvents
    /\ LET patterns == PatternsReturned(CustomKey)
           r == matchesIgnorePattern(path, patterns)
       IN verdict' = [set |-> TRUE, path |-> path, patterns |-> patterns,
                      ignored |-> r.ignored, threw |-> r.threw]
    /\ IF ignoreCache[CustomKey].set /\ isCacheValid
       THEN /\ lastGet' = [cached |-> TRUE, key |-> CustomKey, at |-> now,
                           loadedAt |-> ignoreCache[CustomKey].loadedAt,
                           load |-> ignoreCache[CustomKey].load, after |-> invalidated]
            /\ UNCHANGED <<ignoreCache, lastLoadTime, stamp, cachedPatterns>>
       ELSE /\ ignoreCache' = [ignoreCache EXCEPT ![CustomKey] =
                                  [set |-> TRUE, loadedAt |-> now, load |-> stamp + 1]]
            /\ cachedPatterns' = [cachedPatterns EXCEPT ![CustomKey] = ignorePatterns]
            /\ lastLoadTime' = now
            /\ stamp' = stamp + 1
            /\ lastGet' = [cached |-> FALSE, key |-> CustomKey, at |-> now,
                           loadedAt |-> now, load |-> stamp + 1, after |-> invalidated]
    /\ UNCHANGED <<custom, ticks>>
    /\ UNCHANGED <<disk, fileCache, lastScanTime, lastRefreshTime, displayed, refreshLog,
                   invalidated>>
    /\ UNCHANGED <<filterVars, ignoreVars, throttleVars, configVars, debounceVars,
                   reapplyVars, matchVars>>

\* IgnoreService.addCustomIgnorePattern(pattern)
AddCustomIgnorePattern(pattern) ==
    /\ Len(cachedPatterns[CustomKey]) <= MaxIgnorePatterns
    /\ cachedPatterns' = [cachedPatterns EXCEPT ![CustomKey] =
                             Append(@, [pattern |-> normalizePath(pattern),
                                        source |-> CustomSource, negated |-> FALSE])]
    /\ ignoreCache' = [ignoreCache EXCEPT ![CustomKey] = Written(@)]
    /\ custom' = [state |-> "added", pattern |-> pattern,
                  before |-> cachedPatterns[CustomKey], stamp |-> stamp]
    /\ verdict' = NoVerdict
    /\ UNCHANGED <<lastLoadTime, lastGet, ticks>>
    /\ UNCHANGED <<filterVars, ignoreVars, debounceVars, reapplyVars, panelVars, matchVars,
                   throttleVars, configVars>>

\* IgnoreService.removeCustomIgnorePattern(pattern)
RemoveCustomIgnorePattern(pattern) ==
    /\ cachedPatterns' = [cachedPatterns EXCEPT ![CustomKey] =
                             SelectSeq(@, LAMBDA e : e.pattern # pattern
                                                     \/ e.source # CustomSource)]
    /\ ignoreCache' = [ignoreCache EXCEPT ![CustomKey] = Written(@)]
    /\ custom' = IF custom.state = "added" /\ custom.pattern = pattern
                 THEN [custom EXCEPT !.state = "removed"]
                 ELSE NoCustom
    /\ verdict' = NoVerdict
    /\ UNCHANGED <<lastLoadTime, lastGet, ticks>>
    /\ UNCHANGED <<filterVars, ignoreVars, debounceVars, reapplyVars, panelVars, matchVars,
                   throttleVars, configVars>>

(***************************************************************************)
(* Specifications.                                                         *)
(***************************************************************************)
\* the filters and the panel's applyCurrentFilter on every input
Init == FilterInit /\ IgnoreIdle /\ DebounceIdle /\ ReapplyIdle /\ PanelIdle /\ MatchIdle /\ CacheIdle /\ ThrottleIdle /\ ConfigIdle

Next ==
    \/ GlobApply
    \/ RegexApply
    \/ RegexIsValid
    \/ FuzzyApply
    \/ FuzzyApplyAdvanced
    \/ ApplyCurrentFilter
    \/ Reapply

Spec == Init /\ [][Next]_vars

\* the ignore service's matching on every pattern list and path
IgnoreSpecInit == FilterInitOne /\ IgnoreInit /\ DebounceIdle /\ ReapplyIdle /\ PanelIdle /\ MatchIdle /\ CacheIdle /\ ThrottleIdle /\ ConfigIdle

IgnoreNext ==
    \/ MatchesIgnorePattern
    \/ MatchesPattern

IgnoreSpec == IgnoreSpecInit /\ [][IgnoreNext]_vars

\* a debounced function under every schedule of calls
DebounceSpecInit == FilterInitOne /\ IgnoreIdle /\ DebounceInit /\ ReapplyIdle /\ PanelIdle /\ MatchIdle /\ CacheIdle /\ ThrottleIdle /\ ConfigIdle

DebounceNext ==
    \/ \E args \in ArgValues : DebouncedCall(args)
    \/ Later
    \/ Tick

DebounceSpec == DebounceSpecInit /\ [][DebounceNext]_vars

\* a refresh of the panel over every workspace and ignore list: the clock
\* stands still and the debounce delay is 0
RefreshSpecInit ==
    /\ files = <<>>
    /\ currentFilter \in [pattern : {<<>>, <<"a">>},
                          type : {"glob"},
                          caseSensitive : {FALSE},
                          respectIgnore : BOOLEAN,
                          maxResults : {1000}]
    /\ FilterIdle
    /\ ignorePatterns \in IgnoreLists(1)
    /\ filePath = <<>>
    /\ ignored = FALSE
    /\ ignoreOutcome = "none"
    /\ now = ActivatedAt
    /\ wait = 0
    /\ timeout = NoTimer
    /\ log = <<>>
    /\ ReapplyIdle
    /\ MatchIdle
    /\ CacheIdle
    /\ ThrottleIdle
    /\ ConfigIdle
    /\ disk \in FileLists(MaxFiles)
    /\ fileCache = [k \in BOOLEAN |-> NoEntry]
    /\ lastScanTime = 0
    /\ lastRefreshTime = 0
    /\ displayed = <<>>
    /\ refreshLog = <<>>
    /\ stamp = 0
    /\ invalidated = 0

RefreshNext ==
    \/ ManualRefresh
    \/ ToggleIgnoreFiles
    \/ PerformRefresh

RefreshSpec == RefreshSpecInit /\ [][RefreshNext]_vars

\* IgnoreService's cache under calls with two option sets, over minutes
CacheSteps == {2 * 60 * 1000, 3 * 60 * 1000}

CacheSpecInit ==
    /\ FilterInitOne
    /\ IgnoreIdle
    /\ now = ActivatedAt
    /\ wait = 0
    /\ timeout = NoTimer
    /\ log = <<>>
    /\ ReapplyIdle
    /\ MatchIdle
    /\ PanelIdle
    /\ CacheIdle
    /\ ThrottleIdle
    /\ ConfigIdle

CacheNext ==
    \/ \E key \in CacheKeys : GetIgnorePatterns(key)
    \/ RefreshCache
    \/ \E d \in CacheSteps : Advance(d)

CacheSpec == CacheSpecInit /\ [][CacheNext]_vars

\* the panel under watcher events, commands and workspace changes
PanelSteps == {debounceDelay, minRefreshInterval, cacheTtl}

PanelSpecInit ==
    /\ FilterInitOne
    /\ IgnoreIdle
    /\ now = ActivatedAt
    /\ wait = debounceDelay
    /\ timeout = NoTimer
    /\ log = <<>>
    /\ ReapplyIdle
    /\ MatchIdle
    /\ CacheIdle
    /\ ThrottleIdle
    /\ ConfigIdle
    /\ disk = <<FileItem(<<"a">>)>>
    /\ fileCache = [k \in BOOLEAN |-> NoEntry]
    /\ lastScanTime = 0
    /\ lastRefreshTime = 0
    /\ displayed = <<>>
    /\ refreshLog = <<>>
    /\ stamp = 0
    /\ invalidated = 0

PanelNext ==
    \/ ManualRefresh
    \/ WorkspaceChanged
    \/ WatcherCreate
    \/ WatcherDelete
    \/ WatcherChange
    \/ PerformRefresh
    \/ \E key \in CacheKeys : GetIgnorePatterns(key)
    \/ \E d \in PanelSteps : Advance(d)

PanelSpec == PanelSpecInit /\ [][PanelNext]_vars

\* two throttled functions, their timers and the clock
ThrottleSpecInit ==
    /\ FilterInitOne
    /\ IgnoreIdle
    /\ DebounceIdle
    /\ ReapplyIdle
    /\ PanelIdle
    /\ MatchIdle
    /\ CacheIdle
    /\ ThrottleInit
    /\ ConfigIdle

ThrottleNext ==
    \/ \E fn \in ThrottledFns, args \in ArgValues : ThrottledCall(fn, args)
    \/ \E fn \in ThrottledFns : ThrottleReset(fn)
    \/ ThrottleTick

ThrottleSpec == ThrottleSpecInit /\ [][ThrottleNext]_vars

\* calculateFuzzyScore on pairs of records of every kind of match, among them
\* paths long enough to get no length bonus
LongName == [i \in 1..100 |-> "c"]

\* a record under a long directory: its name is the text behind the last `/`
LongItem(dir, name) == [relativePath |-> dir \o <<"/">> \o name, name |-> name]

ScoreUniverse ==
    { FileItem(<<"a", "b">>),
      FileItem(<<"d", "/", "a", "b">>),
      LongItem(LongName, <<"a", "b">>),
      FileItem(<<"A", "b">>),
      FileItem(<<"a", "b", "c">>),
      FileItem(<<"a", "b", "/", "c">>),
      LongItem(<<"a", "b">> \o LongName, <<"d">>),
      FileItem(<<"c", "a", "b">>),
      FileItem(<<"c", "a", "b", "/", "d">>),
      LongItem(<<"c", "a", "b">> \o LongName, <<"d">>),
      FileItem(<<"a", "c", "b">>),
      FileItem(<<"a", "/", "b">>),
      FileItem(<<"a", "/", "b", "c">>),
      FileItem(<<"d">>) }

ScoreQueries == { <<"a">>, <<"a", "b">>, <<"A", "b">>, <<"a", "/", "b">> }

ScoreSpecInit ==
    /\ files \in { s \in [1..2 -> ScoreUniverse] : s[1] # s[2] }
    /\ currentFilter \in [pattern : ScoreQueries,
                          type : {"fuzzy"},
                          caseSensitive : BOOLEAN,
                          respectIgnore : {TRUE},
                          maxResults : {1000}]
    \* the three-character query is scored on the short records only
    /\ (\E i \in 1..2 : Len(files[i].relativePath) > 100)
          => Len(currentFilter.pattern) < 3
    /\ FilterIdle
    /\ IgnoreIdle
    /\ DebounceIdle
    /\ ReapplyIdle
    /\ PanelIdle
    /\ MatchIdle
    /\ CacheIdle
    /\ ThrottleIdle
    /\ ConfigIdle

ScoreNext == FuzzyApplyAdvanced

ScoreSpec == ScoreSpecInit /\ [][ScoreNext]_vars

\* the panel under refresh requests and configuration changes
ConfigSteps == {100}

ConfigSpecInit ==
    /\ FilterInitOne
    /\ IgnoreIdle
    /\ now = ActivatedAt
    /\ wait = debounceDelay
    /\ timeout = NoTimer
    /\ log = <<>>
    /\ ReapplyIdle
    /\ MatchIdle
    /\ CacheIdle
    /\ ThrottleIdle
    /\ ConfigIdle
    /\ disk \in FileLists(1)
    /\ fileCache = [k \in BOOLEAN |-> NoEntry]
    /\ lastScanTime = 0
    /\ lastRefreshTime = 0
    /\ displayed = <<>>
    /\ refreshLog = <<>>
    /\ stamp = 0
    /\ invalidated = 0

ConfigNext ==
    \/ RequestRefresh
    \/ \E delay \in DelayValues, respectGitignore \in BOOLEAN :
          ConfigurationChanged(delay, respectGitignore)
    \/ PerformRefresh
    \/ PerformRefreshOrphaned
    \/ \E d \in ConfigSteps : ConfigAdvance(d)

ConfigSpec == ConfigSpecInit /\ [][ConfigNext]_vars

\* the panel while files come and go
WatchSteps == {debounceDelay, cacheTtl}

WatchSpecInit ==
    /\ FilterInitOne
    /\ IgnoreIdle
    /\ now = ActivatedAt
    /\ wait = debounceDelay
    /\ timeout = NoTimer
    /\ log = <<>>
    /\ ReapplyIdle
    /\ MatchIdle
    /\ CacheIdle
    /\ ThrottleIdle
    /\ ConfigIdle
    /\ disk \in FileLists(1)
    /\ fileCache = [k \in BOOLEAN |-> NoEntry]
    /\ lastScanTime = 0
    /\ lastRefreshTime = 0
    /\ displayed = <<>>
    /\ refreshLog = <<>>
    /\ stamp = 0
    /\ invalidated = 0

WatchNext ==
    \/ \E file \in FileUniverse : FileCreated(file)
    \/ \E i \in 1..MaxFiles : FileDeleted(i)
    \/ PerformRefresh
    \/ \E d \in WatchSteps : Advance(d)

WatchSpec == WatchSpecInit /\ [][WatchNext]_vars

\* the paths isIgnored is asked about
CustomPaths == { <<"a">>, <<"b">>, <<"b", "/", "a">> }

\* the contents of .gitignore: empty, or the one pattern b
CustomFileLists ==
    { <<>>, <<[pattern |-> <<"b">>, source |-> <<".", "g">>, negated |-> FALSE]>> }

\* the clock steps: the lifetime of the pattern cache
CustomSteps == {cacheExpiry}

\* the ignore service with custom patterns added and removed
CustomSpecInit ==
    /\ FilterInitOne
    /\ ignorePatterns \in CustomFileLists
    /\ filePath = <<>>
    /\ ignored = FALSE
    /\ ignoreOutcome = "none"
    /\ now = ActivatedAt
    /\ wait = 0
    /\ timeout = NoTimer
    /\ log = <<>>
    /\ ReapplyIdle
    /\ MatchIdle
    /\ PanelIdle
    /\ CacheIdle
    /\ ThrottleIdle
    /\ ConfigIdle

CustomNext ==
    \/ \E pattern \in CustomTexts : AddCustomIgnorePattern(pattern)
    \/ \E pattern \in CustomTexts : RemoveCustomIgnorePattern(pattern)
    \/ \E path \in CustomPaths : IsIgnored(path)
    \/ GetIgnorePatterns("gitignore")
    \/ \E d \in CustomSteps : Advance(d)

CustomSpec == CustomSpecInit /\ [][CustomNext]_vars

\* the event loop runs a due timer, and time passes
DebounceFairSpec == DebounceSpec /\ WF_vars(Later) /\ WF_vars(Tick)


(***************************************************************************)
(* Properties.                                                             *)
(***************************************************************************)
Blank(pattern) == \A i \in DOMAIN pattern : pattern[i] = " "

Returns(name) == op = name /\ ~threw

\* C1: for every mode, pattern and input list, the list applyCurrentFilter
\* returns holds at most currentFilter.maxResults records, also when the
\* matcher returned more than that or threw.
C1_MaxResultsCap ==
    op = "applyCurrentFilter" => Len(filteredFiles) <= currentFilter.maxResults

\* C1 witness: in glob mode the matcher kept more records than maxResults
\* and applyCurrentFilter returned exactly maxResults of them.
C1_Witness ==
    /\ op = "applyCurrentFilter"
    /\ currentFilter.type = "glob"
    /\ ~Blank(currentFilter.pattern)
    /\ ~errorShown
    /\ Len(GlobFilterApply(files, currentFilter)) > currentFilter.maxResults
    /\ currentFilter.maxResults > 0
    /\ Len(filteredFiles) = currentFilter.maxResults

\* C2 (as claimed): with an empty or blank pattern, GlobFilter.apply,
\* RegexFilter.apply, FuzzyFilter.apply and applyCurrentFilter each return
\* the input records in their order, cut to the first maxResults.
C2_EmptyPatternIdentityCapped ==
    (/\ Blank(currentFilter.pattern)
     /\ op \in {"globApply", "regexApply", "fuzzyApply", "applyCurrentFilter"})
    => filteredFiles = SubSeq(files, 1, Min(Len(files), currentFilter.maxResults))


\* the comma-separated pieces of a pattern, trimmed: each stretch between
\* two neighbouring separators (the ends of the pattern count as separators)
PatternPieces(pattern) ==
    LET seps == {0, Len(pattern) + 1} \cup { i \in DOMAIN pattern : pattern[i] = "," }
    IN { trim(SubSeq(pattern, lo + 1, hi - 1)) :
           <<lo, hi>> \in { b \in seps \X seps :
                              b[1] < b[2] /\ \A m \in seps : ~(b[1] < m /\ m < b[2]) } }

Inclusions(pattern) == { q \in PatternPieces(pattern) : q # <<>> /\ Head(q) # "!" }

Exclusions(pattern) ==
    { Tail(q) : q \in { r \in PatternPieces(pattern) : r # <<>> /\ Head(r) = "!" } }

GlobPasses(file, filter) ==
    /\ \/ Inclusions(filter.pattern) = {}
       \/ \E q \in Inclusions(filter.pattern) :
              minimatch(file.relativePath, q, ~filter.caseSensitive)
    /\ ~\E q \in Exclusions(filter.pattern) :
              minimatch(file.relativePath, q, ~filter.caseSensitive)

CompiledRegex == createRegex(currentFilter.pattern, currentFilter.caseSensitive)

ExpressionMatches(text) == RegExpTest(CompiledRegex, text, 0).result

\* the regex tests of record i that were run, and whether one of them
\* exceeded the budget
PathTestSlow(i) == elapsed[<<i, "path">>] > timeoutMs

NameTestRan(i) == PathTestSlow(i) \/ ~ExpressionMatches(files[i].relativePath)

NameTestSlow(i) == NameTestRan(i) /\ elapsed[<<i, "name">>] > timeoutMs

RegexRan ==
    /\ Returns("regexApply")
    /\ ~Blank(currentFilter.pattern)
    /\ ~compileFailed

\* C4: RegexFilter.apply with a valid non-empty pattern keeps a record
\* exactly when the compiled expression matches its relativePath or its
\* name (for a record none of whose tests exceeded the time budget).
C4_RegexPathOrName ==
    RegexRan =>
        /\ Range(filteredFiles) \subseteq Range(files)
        /\ \A i \in DOMAIN files :
              (~PathTestSlow(i) /\ ~NameTestSlow(i)) =>
                  (files[i] \in Range(filteredFiles)
                      <=> \/ ExpressionMatches(files[i].relativePath)
                          \/ ExpressionMatches(files[i].name))

\* C4 witness: with every test inside the budget, one record was kept on
\* its name alone (its relativePath does not match) and another was dropped.
C4_Witness ==
    /\ RegexRan
    /\ \A t \in DOMAIN elapsed : elapsed[t] <= timeoutMs
    /\ \E i \in DOMAIN files :
          /\ files[i] \in Range(filteredFiles)
          /\ ~ExpressionMatches(files[i].relativePath)
          /\ ExpressionMatches(files[i].name)
    /\ \E i \in DOMAIN files : files[i] \notin Range(filteredFiles)

\* whether the pattern, parsed as /expr/flags or bare, compiles
PatternCompiles(pattern) ==
    LET parsed == parsePattern(pattern)
    IN ParseAtoms(parsed.pattern, <<>>, FALSE).ok /\ FlagsValid(parsed.flags)

\* C5: for a non-empty pattern that does not compile, isValid returns false
\* and apply returns the empty list without throwing; and when isValid
\* returns true, apply does not take the compile-failure path.
C5_InvalidRegexFailsSoft ==
    /\ (op = "regexIsValid" /\ ~Blank(currentFilter.pattern))
          => (isValidResult <=> PatternCompiles(currentFilter.pattern))
    /\ (op = "regexApply" /\ ~Blank(currentFilter.pattern))
          => /\ ~PatternCompiles(currentFilter.pattern) => (filteredFiles = <<>> /\ ~threw)
             /\ compileFailed => (filteredFiles = <<>> /\ ~threw)
             /\ RegexFilterIsValid(currentFilter.pattern) => ~compileFailed

\* C5 witness: apply was given records and a pattern that does not compile.
C5_Witness ==
    /\ op = "regexApply"
    /\ ~Blank(currentFilter.pattern)
    /\ ~PatternCompiles(currentFilter.pattern)
    /\ compileFailed
    /\ files # <<>>
    /\ filteredFiles = <<>>


\* the patterns of the list that match the path
MatchingPatterns(path, patterns) ==
    { i \in DOMAIN patterns : matchesPattern(path, patterns[i].pattern).matches }

\* C6: the verdict of matchesIgnorePattern is that of the last pattern of
\* the list that matches the path: ignored when it is not negated, not
\* ignored when it is negated or when no pattern matches.
C6_LastMatchDecides ==
    ignoreOutcome = "returned" =>
        LET M == MatchingPatterns(filePath, ignorePatterns)
        IN IF M = {} THEN ignored = FALSE
           ELSE LET last == CHOOSE i \in M : \A j \in M : j <= i
                IN ignored = ~ignorePatterns[last].negated

\* C6 witness: with [b/, !b/a] (the shape of [build/, !build/keep.txt]) the
\* path b/a came out not ignored.
C6_Witness ==
    /\ ignoreOutcome = "returned"
    /\ Len(ignorePatterns) = 2
    /\ ignorePatterns[1].pattern = <<"b", "/">> /\ ~ignorePatterns[1].negated
    /\ ignorePatterns[2].pattern = <<"b", "/", "a">> /\ ignorePatterns[2].negated
    /\ filePath = <<"b", "/", "a">>
    /\ ignored = FALSE

\* q is a subsequence of t
RECURSIVE IsSubsequence(_, _)
IsSubsequence(q, t) ==
    \/ q = <<>>
    \/ /\ t # <<>>
       /\ \/ Head(q) = Head(t) /\ IsSubsequence(Tail(q), Tail(t))
          \/ IsSubsequence(q, Tail(t))

\* the score applyAdvanced gives a record under the current filter
ScoreOf(file) ==
    calculateFuzzyScore(file.name, file.relativePath,
                        toLowerCase(currentFilter.pattern), currentFilter.caseSensitive)

QueryIsSubsequenceOf(file) ==
    \/ IsSubsequence(toLowerCase(currentFilter.pattern), toLowerCase(file.name))
    \/ IsSubsequence(toLowerCase(currentFilter.pattern), toLowerCase(file.relativePath))

AdvancedRan == Returns("fuzzyApplyAdvanced") /\ ~Blank(currentFilter.pattern)

\* C7: applyAdvanced with a non-empty query returns only records whose score
\* is above 0, and with caseSensitive false a record's score is above 0
\* exactly when the lower-cased query is a subsequence of its lower-cased
\* name or relativePath; a record with neither is never returned.
C7_FuzzySubsequence ==
    AdvancedRan =>
        /\ \A f \in Range(filteredFiles) : f \in Range(files) /\ ScoreOf(f) > 0
        /\ ~currentFilter.caseSensitive =>
              /\ \A f \in Range(files) : ScoreOf(f) > 0 <=> QueryIsSubsequenceOf(f)
              /\ \A f \in Range(filteredFiles) : QueryIsSubsequenceOf(f)

\* C7 witness: a two-character query that is a subsequence of a record's
\* path but of no name was answered with that record, another was left out.
C7_Witness ==
    /\ AdvancedRan
    /\ ~currentFilter.caseSensitive
    /\ Len(currentFilter.pattern) = 2
    /\ \E f \in Range(filteredFiles) :
          /\ ~IsSubsequence(toLowerCase(currentFilter.pattern), toLowerCase(f.name))
          /\ ~includes(toLowerCase(f.relativePath), toLowerCase(currentFilter.pattern))
    /\ \E f \in Range(files) : f \notin Range(filteredFiles)

\* the order the claim gives: higher score first, then the shorter
\* relativePath, then the lexically smaller relativePath
RanksBefore(f, g) ==
    \/ ScoreOf(f) > ScoreOf(g)
    \/ /\ ScoreOf(f) = ScoreOf(g)
       /\ \/ Len(f.relativePath) < Len(g.relativePath)
          \/ /\ Len(f.relativePath) = Len(g.relativePath)
             /\ LexLess(f.relativePath, g.relativePath)

\* C8 (as claimed): the list applyAdvanced returns is in a strict total
\* order: by score descending, equal scores by shorter relativePath and then
\* by lexical order of relativePath.
C8_StrictTotalOrder ==
    AdvancedRan =>
        \A i, j \in DOMAIN filteredFiles :
            i < j => RanksBefore(filteredFiles[i], filteredFiles[j])

\* C9 (as claimed): a record one of whose regex tests exceeded the 1000 ms
\* budget is absent from the result of RegexFilter.apply.
C9_TimedOutFileDropped ==
    RegexRan =>
        \A i \in DOMAIN files :
            (PathTestSlow(i) \/ NameTestSlow(i)) => files[i] \notin Range(filteredFiles)


IsCall(i) == log[i].kind = "call"

IsInvoke(i) == log[i].kind = "invoke"

\* the entries of the log behind call j up to the next call (or the end)
AfterCall(j) ==
    { i \in DOMAIN log : i > j /\ \A m \in (j + 1)..i : IsInvoke(m) }

\* call j is followed by another call
HasNextCall(j) == \E m \in DOMAIN log : m > j /\ IsCall(m)

NextCall(j) == CHOOSE m \in DOMAIN log : m > j /\ IsCall(m) /\ \A n \in (j + 1)..(m - 1) : IsInvoke(n)

\* func is never invoked while fewer than wait ms have passed since the
\* most recent call
DebounceNeverEarly ==
    \A i \in DOMAIN log :
        IsInvoke(i) => \A j \in 1..(i - 1) : IsCall(j) => log[i].at - log[j].at >= wait

\* a call that another call follows within less than wait ms invokes
\* nothing; the last call of a burst invokes func at most once, with its own
\* arguments, and exactly once by the time a later call arrives
DebounceOncePerBurst ==
    /\ log # <<>> => IsCall(1)
    /\ \A j \in DOMAIN log :
          IsCall(j) =>
              /\ Cardinality(AfterCall(j)) <= 1
              /\ \A i \in AfterCall(j) : log[i].args = log[j].args
              /\ HasNextCall(j) =>
                    IF log[NextCall(j)].at - log[j].at < wait
                    THEN AfterCall(j) = {}
                    ELSE Cardinality(AfterCall(j)) = 1

Reapplied ==
    /\ op \in {"globReapply", "regexReapply", "fuzzyReapplyAdvanced"}
    /\ \A t \in DOMAIN elapsed : elapsed[t] <= timeoutMs

\* C11: GlobFilter.apply, RegexFilter.apply and FuzzyFilter.applyAdvanced,
\* given their own output with the same options, return the same records in
\* the same order: apply(apply(files, opts), opts) = apply(files, opts).
C11_Idempotent == Reapplied => reapplied = filteredFiles

\* C11 witness: applyAdvanced put the second of two records first, and
\* given that list again returned it as it was.
C11_Witness ==
    /\ op = "fuzzyReapplyAdvanced"
    /\ Len(files) = 2
    /\ filteredFiles = <<files[2], files[1]>>
    /\ reapplied = filteredFiles

\* applyCurrentFilter returned to its caller: no exception left it, and a
\* matcher that threw was answered with an error message and the empty list
FailsSoft ==
    op = "applyCurrentFilter" =>
        /\ ~threw
        /\ matcherThrew => (errorShown /\ filteredFiles = <<>>)

\* a run of applyCurrentFilter leaves currentFilter as it was
KeepsFilterState ==
    op' = "applyCurrentFilter" =>
        /\ currentFilter'.pattern = currentFilter.pattern
        /\ currentFilter'.type = currentFilter.type
        /\ currentFilter'.caseSensitive = currentFilter.caseSensitive
        /\ currentFilter'.respectIgnore = currentFilter.respectIgnore
        /\ currentFilter'.maxResults = currentFilter.maxResults

\* C12: applyCurrentFilter never lets an exception of the selected matcher
\* reach its caller: when the matcher throws it shows an error message and
\* returns the empty list, and pattern, type, caseSensitive, respectIgnore
\* and maxResults stay as they were.
C12_MatcherErrorContained == []FailsSoft /\ [][KeepsFilterState]_vars

\* C12 witness: the matcher threw on a non-empty input list with a positive
\* maxResults, and applyCurrentFilter returned the empty list.
C12_Witness ==
    /\ op = "applyCurrentFilter"
    /\ matcherThrew
    /\ errorShown
    /\ ~threw
    /\ files # <<>>
    /\ currentFilter.maxResults > 0
    /\ filteredFiles = <<>>

\* the verdict of IgnoreService on a record under the loaded patterns
ReportedIgnored(f) == matchesIgnorePattern(f.relativePath, ignorePatterns).ignored

\* C13 (as claimed): with respectIgnore set, the list a refresh produces
\* holds no record whose relativePath IgnoreService reports as ignored under
\* the loaded ignore patterns.
C13_RespectIgnoreExcludes ==
    (op = "performRefresh" /\ currentFilter.respectIgnore)
        => \A f \in Range(displayed) : ~ReportedIgnored(f)

\* the text matches the pattern when every character of the pattern other
\* than `*` stands for itself and `*` for any run of characters
RECURSIVE WildcardMatch(_, _)
WildcardMatch(pattern, text) ==
    IF pattern = <<>> THEN text = <<>>
    ELSE IF Head(pattern) = "*"
         THEN \/ WildcardMatch(Tail(pattern), text)
              \/ text # <<>> /\ WildcardMatch(pattern, Tail(text))
    ELSE /\ text # <<>>
         /\ Head(pattern) = Head(text)
         /\ WildcardMatch(Tail(pattern), Tail(text))

\* C14 (as claimed): for a pattern holding `*` and not ending in `/`,
\* matchesPattern matches a path exactly when the whole path matches the
\* pattern with regex metacharacters taken literally and `*` standing for
\* any run of characters, `/` and the empty run included.
C14_StarMatchesAnyRun ==
    (/\ patternOutcome # "none"
     /\ includes(patternTried, <<"*">>)
     /\ ~endsWith(patternTried, <<"/">>))
    => /\ patternOutcome = "returned"
       /\ patternMatched <=> WildcardMatch(patternTried, filePath)

\* C15 (as claimed): for a pattern ending in `/`, matchesPattern matches the
\* path equal to the pattern without its trailing slash and every path
\* that starts with the pattern, and no other path.
C15_DirectoryPattern ==
    (patternOutcome # "none" /\ endsWith(patternTried, <<"/">>))
    => /\ patternOutcome = "returned"
       /\ patternMatched <=>
              \/ filePath = SubSeq(patternTried, 1, Len(patternTried) - 1)
              \/ startsWith(filePath, patternTried)

\* C16 (as claimed): the ignore check ends with a verdict for every path
\* and every list of patterns an ignore file can hold; no pattern text makes
\* it throw.
C16_IgnoreCheckNeverThrows == ignoreOutcome # "threw"

\* C17 (as claimed): getIgnorePatterns never returns a cached list for a
\* key once 5 minutes have passed since that list was loaded, whatever
\* calls with other option sets came in between.
C17_CacheExpires ==
    lastGet.cached => lastGet.at - lastGet.loadedAt < cacheExpiry

\* every refresh served a scan made after the latest invalidating event
RescansAfterEvent ==
    \A i \in DOMAIN refreshLog : refreshLog[i].scan > refreshLog[i].after

\* the latest getIgnorePatterns served a load made after the latest
\* invalidating event
ReloadsAfterEvent == lastGet.key # "none" => lastGet.load > lastGet.after

\* C18 (as claimed): after a workspace-folder change and after a manual
\* refresh request, the first load re-reads the ignore files and rescans the
\* workspace instead of returning a list cached before the event.
C18_EventsInvalidateCaches == RescansAfterEvent /\ ReloadsAfterEvent

\* C19 (as claimed): whenever a refresh is executed because of a file system
\* watcher event, at least 1000 ms have passed since the previous refresh.
C19_WatcherRefreshRateLimited ==
    \A i \in DOMAIN refreshLog :
        (i > 1 /\ refreshLog[i].cause \in WatcherCauses)
            => refreshLog[i].at - refreshLog[i - 1].at >= minRefreshInterval

\* func was invoked for call k, at once and with the call's arguments
InvokedFor(k) ==
    \E j \in DOMAIN invocations :
        /\ invocations[j].call = k
        /\ invocations[j].fn = throttleCalls[k].fn
        /\ invocations[j].at = throttleCalls[k].at
        /\ invocations[j].args = throttleCalls[k].args

\* call k is the first call of its function, or limit ms have passed since
\* the last earlier call of its function that invoked func
LimitPassed(k) ==
    \A e \in 1..(k - 1) :
        (throttleCalls[e].fn = throttleCalls[k].fn /\ InvokedFor(e))
            => throttleCalls[k].at - throttleCalls[e].at >= limit[throttleCalls[k].fn]

\* func runs only for a call, once per call
OnlyForCalls ==
    /\ \A j \in DOMAIN invocations : invocations[j].call \in DOMAIN throttleCalls
    /\ \A i, j \in DOMAIN invocations : invocations[i].call = invocations[j].call => i = j

\* C20 (as claimed): the first call of a throttled function invokes func at
\* once with its arguments; a call made less than limit ms after the last
\* invoking call is dropped for good; the first call made once limit ms have
\* passed invokes func at once again; each throttled function counts for
\* itself.
C20_ThrottleContract ==
    /\ OnlyForCalls
    /\ \A k \in DOMAIN throttleCalls : InvokedFor(k) <=> LimitPassed(k)

\* C21 (as claimed): GlobFilter.apply and RegexFilter.apply return the first
\* maxResults matching records, in their input order: an order-preserving
\* subsequence of the input, at most maxResults long.
C21_MatchersSliceToCap ==
    (/\ op \in {"globApply", "regexApply"}
     /\ ~threw
     /\ ~Blank(currentFilter.pattern))
    => /\ IsSubsequence(filteredFiles, files)
       /\ Len(filteredFiles) <= currentFilter.maxResults

\* the places where a pattern of the form /expr/flags closes its expression
ClosingSlashes(pattern) ==
    { j \in 3..Len(pattern) :
        /\ pattern[1] = "/"
        /\ pattern[j] = "/"
        /\ \A i \in (j + 1)..Len(pattern) : pattern[i] \in {"g", "i", "m", "u", "y"} }

\* the expression and flags the pattern stands for
ClaimedParse(pattern) ==
    IF ClosingSlashes(pattern) = {}
    THEN [expr |-> pattern, flags |-> <<>>]
    ELSE LET j == CHOOSE k \in ClosingSlashes(pattern) : TRUE
         IN [expr |-> SubSeq(pattern, 2, j - 1),
             flags |-> SubSeq(pattern, j + 1, Len(pattern))]

\* the flags the expression is compiled with
ClaimedFlags(pattern, caseSensitive) ==
    LET written == ClaimedParse(pattern).flags
    IN IF caseSensitive \/ "i" \in Range(written)
       THEN written
       ELSE Append(written, "i")

Folded(s) == IF currentFilter.caseSensitive THEN s ELSE toLowerCase(s)

\* the query calculateFuzzyScore is given by applyAdvanced
Query == Folded(toLowerCase(currentFilter.pattern))

\* the kind of match of a record: 4 its name or path equals the query, 3 one
\* of them starts with it, 2 one of them contains it, 1 the query is a
\* non-contiguous subsequence of one of them, 0 no match
Tier(file) ==
    LET name == Folded(file.name)
        path == Folded(file.relativePath)
    IN IF name = Query \/ path = Query THEN 4
       ELSE IF startsWith(name, Query) \/ startsWith(path, Query) THEN 3
       ELSE IF includes(name, Query) \/ includes(path, Query) THEN 2
       ELSE IF IsSubsequence(Query, name) \/ IsSubsequence(Query, path) THEN 1
       ELSE 0

\* C23: for one query, a record of a higher kind of match scores strictly
\* higher than a record of a lower kind, whatever their length bonuses:
\* equality above everything else, prefix above containment, containment
\* above a non-contiguous subsequence.
C23_ScoreTiersOrdered ==
    AdvancedRan =>
        \A f, g \in Range(files) : Tier(f) > Tier(g) => ScoreOf(f) > ScoreOf(g)

\* C23 witness: a record with a long path that only starts with the query
\* (no length bonus) was ranked before a short record that only contains it.
C23_Witness ==
    /\ AdvancedRan
    /\ Len(filteredFiles) = 2
    /\ Tier(filteredFiles[1]) = 3
    /\ Tier(filteredFiles[2]) = 2
    /\ Len(filteredFiles[1].relativePath) > 100
    /\ Len(filteredFiles[2].relativePath) < 4
    /\ files[1] = filteredFiles[2]

\* the query matches the text compared exactly as given: it is a subsequence
\* of it, character for character
MatchesExactly(query, text) == IsSubsequence(query, text)

\* C24 (as claimed): with caseSensitive true the query and the targets are
\* compared exactly as given: a record whose name equals the query character
\* for character is matched, and a record whose name and path match the
\* query only when letter case is ignored is not.
C24_CaseSensitiveExact ==
    (AdvancedRan /\ currentFilter.caseSensitive) =>
        \A f \in Range(files) :
            /\ f.name = currentFilter.pattern => f \in Range(filteredFiles)
            /\ (/\ ~MatchesExactly(currentFilter.pattern, f.name)
                /\ ~MatchesExactly(currentFilter.pattern, f.relativePath))
               => f \notin Range(filteredFiles)

\* what is left of a path when some of its leading segments are dropped
SegmentSuffixes(path) ==
    { SubSeq(path, k, Len(path)) :
        k \in { j \in 1..(Len(path) + 1) : j = 1 \/ path[j - 1] = "/" } }

\* the pattern is neither a directory pattern nor a wildcard pattern nor
\* anchored at the root
RelativePattern(pattern) ==
    /\ ~endsWith(pattern, <<"/">>)
    /\ ~includes(pattern, <<"*">>)
    /\ ~startsWith(pattern, <<"/">>)

\* C25: for a pattern that does not end in `/`, holds no `*` and does not
\* start with `/`, matchesPattern matches a path exactly when the path with
\* some number of leading segments dropped equals the pattern or starts with
\* the pattern followed by `/`: at any depth, never on part of a segment.
C25_RelativePattern ==
    (patternOutcome # "none" /\ RelativePattern(patternTried))
    => /\ patternOutcome = "returned"
       /\ patternMatched <=>
              \E rest \in SegmentSuffixes(filePath) :
                  \/ rest = patternTried
                  \/ startsWith(rest, patternTried \o <<"/">>)

\* C25 witness: the pattern b/a matched the path a/b/a, one directory down.
C25_Witness ==
    /\ patternOutcome = "returned"
    /\ patternTried = <<"b", "/", "a">>
    /\ filePath = <<"a", "/", "b", "/", "a">>
    /\ patternMatched

\* the requests made before the time t
RequestsBefore(t) == { q \in DOMAIN requestLog : requestLog[q].at < t }

\* the latest of them
LastRequestBefore(t) ==
    CHOOSE q \in RequestsBefore(t) : \A r \in RequestsBefore(t) : r <= q

\* C26 (as claimed): debouncing holds across a configuration change: a
\* refresh runs only when the delay in force has passed since the latest
\* request, configuration changes included, and never twice for the same
\* requests; a refresh pending before the change does not run in addition.
C26_DebounceAcrossConfigChange ==
    \A i \in DOMAIN refreshLog :
        /\ RequestsBefore(refreshLog[i].at) # {}
        /\ LET q == LastRequestBefore(refreshLog[i].at)
           IN refreshLog[i].at = requestLog[q].at + requestLog[q].delay
        /\ i > 1 => refreshLog[i].at > refreshLog[i - 1].at

\* the refresh asked for by the latest create or delete event has run
WatcherRefreshRan ==
    /\ ~timeout.set
    /\ refreshLog # <<>>
    /\ refreshLog[Len(refreshLog)].cause \in {"create", "delete"}

\* C27 (as claimed): once the refresh triggered by a create or delete event
\* has run, the displayed list holds the workspace's current files (the
\* filter being empty): the created file is in it, the deleted file is not,
\* also less than 5 minutes after the previous scan.
C27_WatcherRefreshShowsCurrentFiles ==
    WatcherRefreshRan => Range(displayed) = Range(disk)

\* the list held a custom entry for the pattern before the add
HeldCustomEntry(list, pattern) ==
    \E i \in DOMAIN list :
        /\ list[i].source = CustomSource
        /\ list[i].pattern \in {pattern, normalizePath(pattern)}

\* removeCustomIgnorePattern(p) was the call after addCustomIgnorePattern(p),
\* and nothing was loaded in between
RemovedAfterAdd ==
    /\ custom.state = "removed"
    /\ custom.stamp = stamp
    /\ ~HeldCustomEntry(custom.before, custom.pattern)

\* C28 (as claimed): addCustomIgnorePattern(p) followed by
\* removeCustomIgnorePattern(p) leaves the cached pattern list as it was
\* before the add, also when normalizePath changes p.
C28_AddRemoveRoundTrip ==
    RemovedAfterAdd => cachedPatterns[CustomKey] = custom.before

\* the list an isIgnored call worked with has the custom pattern last and
\* the patterns of the ignore files before it
CustomInEffect ==
    LET list == verdict.patterns
        entry == [pattern |-> normalizePath(custom.pattern),
                  source |-> CustomSource, negated |-> FALSE]
    IN /\ list # <<>>
       /\ list[Len(list)] = entry
       /\ Len(list) > Len(ignorePatterns)
       /\ SubSeq(list, 1, Len(ignorePatterns)) = ignorePatterns
       /\ ~verdict.threw
             => (matchesPattern(verdict.path, entry.pattern).matches => verdict.ignored)

\* C29 (as claimed): after addCustomIgnorePattern(p), every isIgnored call
\* with the three ignore files respected works with p as the last pattern,
\* next to the patterns of the ignore files, until the pattern is removed or
\* the cache refreshed; whether or not the list had been loaded before the
\* add, and whether or not the cache lifetime has passed.
C29_CustomPatternStays ==
    (verdict.set /\ custom.state = "added") => CustomInEffect

\* the list in the opposite order
Reversed(s) == [i \in 1..Len(s) |-> s[Len(s) + 1 - i]]

\* the times the tests of record i took, as the times of a list holding
\* that record alone
ElapsedAlone(i) == [t \in Tests(<<files[i]>>) |-> elapsed[<<i, t[2]>>]]

\* the times of the tests, for the list in the opposite order
ElapsedReversed == [t \in Tests(files) |-> elapsed[<<Len(files) + 1 - t[1], t[2]>>]]

\* whether apply keeps record i when it is given that record alone
KeptAlone(i) == RegexFilterApply(<<files[i]>>, currentFilter, ElapsedAlone(i)).files # <<>>

\* C30: RegexFilter.apply gives every record the verdict it gets when it is
\* filtered alone, also for patterns with the g or y flag (lastIndex is reset
\* before every test), and the records kept do not depend on the order in
\* which the list is given.
C30_VerdictIndependentOfOrder ==
    RegexRan =>
        /\ \A i \in DOMAIN files : (files[i] \in Range(filteredFiles)) <=> KeptAlone(i)
        /\ Range(RegexFilterApply(Reversed(files), currentFilter, ElapsedReversed).files)
              = Range(filteredFiles)

\* C30 witness: a pattern with the g or y flag, every test inside the budget;
\* the first record matched on its relativePath, and the second was kept
\* although its relativePath does not match from the position where that
\* match ended, and its name does not match at all.
C30_Witness ==
    /\ RegexRan
    /\ Range(parsePattern(currentFilter.pattern).flags) \cap {"g", "y"} # {}
    /\ \A t \in DOMAIN elapsed : elapsed[t] <= timeoutMs
    /\ Len(files) = 2
    /\ filteredFiles = files
    /\ LET regex == createRegex(currentFilter.pattern, currentFilter.caseSensitive)
           first == RegExpTest(regex, files[1].relativePath, 0)
       IN /\ first.result
          /\ first.lastIndex > 0
          /\ ~RegExpTest(regex, files[2].relativePath, first.lastIndex).result
          /\ ~RegExpTest(regex, files[2].name, 0).result

====
